---- MODULE Spec2Model ----
(***************************************************************************)
(* A model of rust_project_setup.py: the dependency line parser, the       *)
(* dependency file reader, the Cargo.toml merger with the toml library's   *)
(* writing and reading of the file, and the orchestration in main().       *)
(*                                                                         *)
(* Text is a sequence of Unicode code points, so "serde" is                *)
(* <<115,101,114,100,101>>, written T(<<"s","e","r","d","e">>), and        *)
(* Python's "" is <<>>.  Python's None is the value None below, which no   *)
(* text equals.                                                            *)
(***************************************************************************)
EXTENDS Integers, Sequences, FiniteSets, TLC

VARIABLES
    pc,            \* position of the process being modelled
    form,          \* parser alone: which surface form the line was built from
    tokN,          \* parser alone: the name token the line was built from
    tokV,          \* parser alone: the version string the line was built from
    line,          \* parser alone: the raw line handed to parse_dep_line
    decl,          \* parser alone: what parse_dep_line returned
    manifest,      \* Cargo.toml on disk
    before,        \* Cargo.toml on disk when the last merge began
    depsFile,      \* the dependency file the reader opened (or NoFile)
    deps,          \* list of (name, version) the reader returned
    added,         \* list of names the last merge returned
    document,      \* data["dependencies"] of the last merge after its loop
    outcome,       \* how the last merge ended: "none", "returned", "raised",
                   \* or "outside" when the library left what the model covers
    prevAdded,     \* list of names the merge before the last one returned
    round,         \* reader and merger alone: how many files were read so far
    cargo,         \* check_tool("cargo")
    rustc,         \* check_tool("rustc")
    dirExists,     \* project_dir.exists()
    warned,        \* the toolchain warning was printed in this run
    buildInvoked,  \* `cargo build` was run in this run
    buildOk,       \* what cargo_build returned
    reminded,      \* the final "[done] Run this script again" line was printed
    exitCode,      \* process exit status of the run: NoExit, <<0>> or <<1>>
    ending         \* how the run ended: "" while it runs

parseVars == <<form, tokN, tokV, line, decl>>
mergeVars == <<manifest, before, depsFile, deps, added, document, outcome, prevAdded,
               round>>
mainVars  == <<cargo, rustc, dirExists, warned, buildInvoked, buildOk, reminded, exitCode, ending>>
vars      == <<pc, parseVars, mergeVars, mainVars>>

(***************************************************************************)
(* Characters                                                              *)
(***************************************************************************)
None == <<-1>>

\* the printable ASCII characters in code point order, U+0020 first
Ascii ==
    <<" ", "!", "\"", "#", "$", "%", "&", "'", "(", ")", "*", "+", ",", "-", ".", "/",
      "0", "1", "2", "3", "4", "5", "6", "7", "8", "9", ":", ";", "<", "=", ">", "?",
      "@", "A", "B", "C", "D", "E", "F", "G", "H", "I", "J", "K", "L", "M", "N", "O",
      "P", "Q", "R", "S", "T", "U", "V", "W", "X", "Y", "Z", "[", "backslash", "]", "^", "_",
      "backtick", "a", "b", "c", "d", "e", "f", "g", "h", "i", "j", "k", "l", "m", "n", "o",
      "p", "q", "r", "s", "t", "u", "v", "w", "x", "y", "z", "{", "|", "}", "~">>

\* ord(c) of a printable ASCII character other than the backslash and the backtick
Ord(c) == 31 + (CHOOSE i \in DOMAIN Ascii : Ascii[i] = c)

\* the text of a tuple of printable ASCII characters
T(s) == [i \in DOMAIN s |-> Ord(s[i])]


Tab == 9

LineFeed == 10

CarriageReturn == 13

FormFeed == 12

Space == Ord(" ")

DoubleQuote == Ord("\"")

SingleQuote == Ord("'")

Backslash == 92

Hash == Ord("#")

Dot == Ord(".")

EqualsSign == Ord("=")

Colon == Ord(":")

Hyphen == Ord("-")

Underscore == Ord("_")

Star == Ord("*")

AsciiAlnum == (48..57) \cup (65..90) \cup (97..122)

\* the code points above U+007F for which str.isalnum() holds (Unicode 14.0,
\* the database of CPython 3.11), as closed intervals
AlnumRanges ==
  <<
    170,170, 178,179, 181,181, 185,186, 188,190,
    192,214, 216,246, 248,705, 710,721, 736,740,
    748,748, 750,750, 880,884, 886,887, 890,893,
    895,895, 902,902, 904,906, 908,908, 910,929,
    931,1013, 1015,1153, 1162,1327, 1329,1366, 1369,1369,
    1376,1416, 1488,1514, 1519,1522, 1568,1610, 1632,1641,
    1646,1647, 1649,1747, 1749,1749, 1765,1766, 1774,1788,
    1791,1791, 1808,1808, 1810,1839, 1869,1957, 1969,1969,
    1984,2026, 2036,2037, 2042,2042, 2048,2069, 2074,2074,
    2084,2084, 2088,2088, 2112,2136, 2144,2154, 2160,2183,
    2185,2190, 2208,2249, 2308,2361, 2365,2365, 2384,2384,
    2392,2401, 2406,2415, 2417,2432, 2437,2444, 2447,2448,
    2451,2472, 2474,2480, 2482,2482, 2486,2489, 2493,2493,
    2510,2510, 2524,2525, 2527,2529, 2534,2545, 2548,2553,
    2556,2556, 2565,2570, 2575,2576, 2579,2600, 2602,2608,
    2610,2611, 2613,2614, 2616,2617, 2649,2652, 2654,2654,
    2662,2671, 2674,2676, 2693,2701, 2703,2705, 2707,2728,
    2730,2736, 2738,2739, 2741,2745, 2749,2749, 2768,2768,
    2784,2785, 2790,2799, 2809,2809, 2821,2828, 2831,2832,
    2835,2856, 2858,2864, 2866,2867, 2869,2873, 2877,2877,
    2908,2909, 2911,2913, 2918,2927, 2929,2935, 2947,2947,
    2949,2954, 2958,2960, 2962,2965, 2969,2970, 2972,2972,
    2974,2975, 2979,2980, 2984,2986, 2990,3001, 3024,3024,
    3046,3058, 3077,3084, 3086,3088, 3090,3112, 3114,3129,
    3133,3133, 3160,3162, 3165,3165, 3168,3169, 3174,3183,
    3192,3198, 3200,3200, 3205,3212, 3214,3216, 3218,3240,
    3242,3251, 3253,3257, 3261,3261, 3293,3294, 3296,3297,
    3302,3311, 3313,3314, 3332,3340, 3342,3344, 3346,3386,
    3389,3389, 3406,3406, 3412,3414, 3416,3425, 3430,3448,
    3450,3455, 3461,3478, 3482,3505, 3507,3515, 3517,3517,
    3520,3526, 3558,3567, 3585,3632, 3634,3635, 3648,3654,
    3664,3673, 3713,3714, 3716,3716, 3718,3722, 3724,3747,
    3749,3749, 3751,3760, 3762,3763, 3773,3773, 3776,3780,
    3782,3782, 3792,3801, 3804,3807, 3840,3840, 3872,3891,
    3904,3911, 3913,3948, 3976,3980, 4096,4138, 4159,4169,
    4176,4181, 4186,4189, 4193,4193, 4197,4198, 4206,4208,
    4213,4225, 4238,4238, 4240,4249, 4256,4293, 4295,4295,
    4301,4301, 4304,4346, 4348,4680, 4682,4685, 4688,4694,
    4696,4696, 4698,4701, 4704,4744, 4746,4749, 4752,4784,
    4786,4789, 4792,4798, 4800,4800, 4802,4805, 4808,4822,
    4824,4880, 4882,4885, 4888,4954, 4969,4988, 4992,5007,
    5024,5109, 5112,5117, 5121,5740, 5743,5759, 5761,5786,
    5792,5866, 5870,5880, 5888,5905, 5919,5937, 5952,5969,
    5984,5996, 5998,6000, 6016,6067, 6103,6103, 6108,6108,
    6112,6121, 6128,6137, 6160,6169, 6176,6264, 6272,6276,
    6279,6312, 6314,6314, 6320,6389, 6400,6430, 6470,6509,
    6512,6516, 6528,6571, 6576,6601, 6608,6618, 6656,6678,
    6688,6740, 6784,6793, 6800,6809, 6823,6823, 6917,6963,
    6981,6988, 6992,7001, 7043,7072, 7086,7141, 7168,7203,
    7232,7241, 7245,7293, 7296,7304, 7312,7354, 7357,7359,
    7401,7404, 7406,7411, 7413,7414, 7418,7418, 7424,7615,
    7680,7957, 7960,7965, 7968,8005, 8008,8013, 8016,8023,
    8025,8025, 8027,8027, 8029,8029, 8031,8061, 8064,8116,
    8118,8124, 8126,8126, 8130,8132, 8134,8140, 8144,8147,
    8150,8155, 8160,8172, 8178,8180, 8182,8188, 8304,8305,
    8308,8313, 8319,8329, 8336,8348, 8450,8450, 8455,8455,
    8458,8467, 8469,8469, 8473,8477, 8484,8484, 8486,8486,
    8488,8488, 8490,8493, 8495,8505, 8508,8511, 8517,8521,
    8526,8526, 8528,8585, 9312,9371, 9450,9471,
    10102,10131, 11264,11492, 11499,11502, 11506,11507,
    11517,11517, 11520,11557, 11559,11559, 11565,11565,
    11568,11623, 11631,11631, 11648,11670, 11680,11686,
    11688,11694, 11696,11702, 11704,11710, 11712,11718,
    11720,11726, 11728,11734, 11736,11742, 11823,11823,
    12293,12295, 12321,12329, 12337,12341, 12344,12348,
    12353,12438, 12445,12447, 12449,12538, 12540,12543,
    12549,12591, 12593,12686, 12690,12693, 12704,12735,
    12784,12799, 12832,12841, 12872,12879, 12881,12895,
    12928,12937, 12977,12991, 13312,19903, 19968,42124,
    42192,42237, 42240,42508, 42512,42539, 42560,42606,
    42623,42653, 42656,42735, 42775,42783, 42786,42888,
    42891,42954, 42960,42961, 42963,42963, 42965,42969,
    42994,43009, 43011,43013, 43015,43018, 43020,43042,
    43056,43061, 43072,43123, 43138,43187, 43216,43225,
    43250,43255, 43259,43259, 43261,43262, 43264,43301,
    43312,43334, 43360,43388, 43396,43442, 43471,43481,
    43488,43492, 43494,43518, 43520,43560, 43584,43586,
    43588,43595, 43600,43609, 43616,43638, 43642,43642,
    43646,43695, 43697,43697, 43701,43702, 43705,43709,
    43712,43712, 43714,43714, 43739,43741, 43744,43754,
    43762,43764, 43777,43782, 43785,43790, 43793,43798,
    43808,43814, 43816,43822, 43824,43866, 43868,43881,
    43888,44002, 44016,44025, 44032,55203, 55216,55238,
    55243,55291, 63744,64109, 64112,64217, 64256,64262,
    64275,64279, 64285,64285, 64287,64296, 64298,64310,
    64312,64316, 64318,64318, 64320,64321, 64323,64324,
    64326,64433, 64467,64829, 64848,64911, 64914,64967,
    65008,65019, 65136,65140, 65142,65276, 65296,65305,
    65313,65338, 65345,65370, 65382,65470, 65474,65479,
    65482,65487, 65490,65495, 65498,65500, 65536,65547,
    65549,65574, 65576,65594, 65596,65597, 65599,65613,
    65616,65629, 65664,65786, 65799,65843, 65856,65912,
    65930,65931, 66176,66204, 66208,66256, 66273,66299,
    66304,66339, 66349,66378, 66384,66421, 66432,66461,
    66464,66499, 66504,66511, 66513,66517, 66560,66717,
    66720,66729, 66736,66771, 66776,66811, 66816,66855,
    66864,66915, 66928,66938, 66940,66954, 66956,66962,
    66964,66965, 66967,66977, 66979,66993, 66995,67001,
    67003,67004, 67072,67382, 67392,67413, 67424,67431,
    67456,67461, 67463,67504, 67506,67514, 67584,67589,
    67592,67592, 67594,67637, 67639,67640, 67644,67644,
    67647,67669, 67672,67702, 67705,67742, 67751,67759,
    67808,67826, 67828,67829, 67835,67867, 67872,67897,
    67968,68023, 68028,68047, 68050,68096, 68112,68115,
    68117,68119, 68121,68149, 68160,68168, 68192,68222,
    68224,68255, 68288,68295, 68297,68324, 68331,68335,
    68352,68405, 68416,68437, 68440,68466, 68472,68497,
    68521,68527, 68608,68680, 68736,68786, 68800,68850,
    68858,68899, 68912,68921, 69216,69246, 69248,69289,
    69296,69297, 69376,69415, 69424,69445, 69457,69460,
    69488,69505, 69552,69579, 69600,69622, 69635,69687,
    69714,69743, 69745,69746, 69749,69749, 69763,69807,
    69840,69864, 69872,69881, 69891,69926, 69942,69951,
    69956,69956, 69959,69959, 69968,70002, 70006,70006,
    70019,70066, 70081,70084, 70096,70106, 70108,70108,
    70113,70132, 70144,70161, 70163,70187, 70272,70278,
    70280,70280, 70282,70285, 70287,70301, 70303,70312,
    70320,70366, 70384,70393, 70405,70412, 70415,70416,
    70419,70440, 70442,70448, 70450,70451, 70453,70457,
    70461,70461, 70480,70480, 70493,70497, 70656,70708,
    70727,70730, 70736,70745, 70751,70753, 70784,70831,
    70852,70853, 70855,70855, 70864,70873, 71040,71086,
    71128,71131, 71168,71215, 71236,71236, 71248,71257,
    71296,71338, 71352,71352, 71360,71369, 71424,71450,
    71472,71483, 71488,71494, 71680,71723, 71840,71922,
    71935,71942, 71945,71945, 71948,71955, 71957,71958,
    71960,71983, 71999,71999, 72001,72001, 72016,72025,
    72096,72103, 72106,72144, 72161,72161, 72163,72163,
    72192,72192, 72203,72242, 72250,72250, 72272,72272,
    72284,72329, 72349,72349, 72368,72440, 72704,72712,
    72714,72750, 72768,72768, 72784,72812, 72818,72847,
    72960,72966, 72968,72969, 72971,73008, 73030,73030,
    73040,73049, 73056,73061, 73063,73064, 73066,73097,
    73112,73112, 73120,73129, 73440,73458, 73648,73648,
    73664,73684, 73728,74649, 74752,74862, 74880,75075,
    77712,77808, 77824,78894, 82944,83526, 92160,92728,
    92736,92766, 92768,92777, 92784,92862, 92864,92873,
    92880,92909, 92928,92975, 92992,92995, 93008,93017,
    93019,93025, 93027,93047, 93053,93071, 93760,93846,
    93952,94026, 94032,94032, 94099,94111, 94176,94177,
    94179,94179, 94208,100343, 100352,101589, 101632,101640,
    110576,110579, 110581,110587, 110589,110590,
    110592,110882, 110928,110930, 110948,110951,
    110960,111355, 113664,113770, 113776,113788,
    113792,113800, 113808,113817, 119520,119539,
    119648,119672, 119808,119892, 119894,119964,
    119966,119967, 119970,119970, 119973,119974,
    119977,119980, 119982,119993, 119995,119995,
    119997,120003, 120005,120069, 120071,120074,
    120077,120084, 120086,120092, 120094,120121,
    120123,120126, 120128,120132, 120134,120134,
    120138,120144, 120146,120485, 120488,120512,
    120514,120538, 120540,120570, 120572,120596,
    120598,120628, 120630,120654, 120656,120686,
    120688,120712, 120714,120744, 120746,120770,
    120772,120779, 120782,120831, 122624,122654,
    123136,123180, 123191,123197, 123200,123209,
    123214,123214, 123536,123565, 123584,123627,
    123632,123641, 124896,124902, 124904,124907,
    124909,124910, 124912,124926, 124928,125124,
    125127,125135, 125184,125251, 125259,125259,
    125264,125273, 126065,126123, 126125,126127,
    126129,126132, 126209,126253, 126255,126269,
    126464,126467, 126469,126495, 126497,126498,
    126500,126500, 126503,126503, 126505,126514,
    126516,126519, 126521,126521, 126523,126523,
    126530,126530, 126535,126535, 126537,126537,
    126539,126539, 126541,126543, 126545,126546,
    126548,126548, 126551,126551, 126553,126553,
    126555,126555, 126557,126557, 126559,126559,
    126561,126562, 126564,126564, 126567,126570,
    126572,126578, 126580,126583, 126585,126588,
    126590,126590, 126592,126601, 126603,126619,
    126625,126627, 126629,126633, 126635,126651,
    127232,127244, 130032,130041, 131072,173791,
    173824,177976, 177984,178205, 178208,183969,
    183984,191456, 194560,195101, 196608,201546
  >>

\* the code points above U+007F for which str.isprintable() does not hold, as
\* closed intervals
UnprintableRanges ==
  <<
    128,160, 173,173, 888,889, 896,899, 907,907,
    909,909, 930,930, 1328,1328, 1367,1368, 1419,1420,
    1424,1424, 1480,1487, 1515,1518, 1525,1541, 1564,1564,
    1757,1757, 1806,1807, 1867,1868, 1970,1983, 2043,2044,
    2094,2095, 2111,2111, 2140,2141, 2143,2143, 2155,2159,
    2191,2199, 2274,2274, 2436,2436, 2445,2446, 2449,2450,
    2473,2473, 2481,2481, 2483,2485, 2490,2491, 2501,2502,
    2505,2506, 2511,2518, 2520,2523, 2526,2526, 2532,2533,
    2559,2560, 2564,2564, 2571,2574, 2577,2578, 2601,2601,
    2609,2609, 2612,2612, 2615,2615, 2618,2619, 2621,2621,
    2627,2630, 2633,2634, 2638,2640, 2642,2648, 2653,2653,
    2655,2661, 2679,2688, 2692,2692, 2702,2702, 2706,2706,
    2729,2729, 2737,2737, 2740,2740, 2746,2747, 2758,2758,
    2762,2762, 2766,2767, 2769,2783, 2788,2789, 2802,2808,
    2816,2816, 2820,2820, 2829,2830, 2833,2834, 2857,2857,
    2865,2865, 2868,2868, 2874,2875, 2885,2886, 2889,2890,
    2894,2900, 2904,2907, 2910,2910, 2916,2917, 2936,2945,
    2948,2948, 2955,2957, 2961,2961, 2966,2968, 2971,2971,
    2973,2973, 2976,2978, 2981,2983, 2987,2989, 3002,3005,
    3011,3013, 3017,3017, 3022,3023, 3025,3030, 3032,3045,
    3067,3071, 3085,3085, 3089,3089, 3113,3113, 3130,3131,
    3141,3141, 3145,3145, 3150,3156, 3159,3159, 3163,3164,
    3166,3167, 3172,3173, 3184,3190, 3213,3213, 3217,3217,
    3241,3241, 3252,3252, 3258,3259, 3269,3269, 3273,3273,
    3278,3284, 3287,3292, 3295,3295, 3300,3301, 3312,3312,
    3315,3327, 3341,3341, 3345,3345, 3397,3397, 3401,3401,
    3408,3411, 3428,3429, 3456,3456, 3460,3460, 3479,3481,
    3506,3506, 3516,3516, 3518,3519, 3527,3529, 3531,3534,
    3541,3541, 3543,3543, 3552,3557, 3568,3569, 3573,3584,
    3643,3646, 3676,3712, 3715,3715, 3717,3717, 3723,3723,
    3748,3748, 3750,3750, 3774,3775, 3781,3781, 3783,3783,
    3790,3791, 3802,3803, 3808,3839, 3912,3912, 3949,3952,
    3992,3992, 4029,4029, 4045,4045, 4059,4095, 4294,4294,
    4296,4300, 4302,4303, 4681,4681, 4686,4687, 4695,4695,
    4697,4697, 4702,4703, 4745,4745, 4750,4751, 4785,4785,
    4790,4791, 4799,4799, 4801,4801, 4806,4807, 4823,4823,
    4881,4881, 4886,4887, 4955,4956, 4989,4991, 5018,5023,
    5110,5111, 5118,5119, 5760,5760, 5789,5791, 5881,5887,
    5910,5918, 5943,5951, 5972,5983, 5997,5997, 6001,6001,
    6004,6015, 6110,6111, 6122,6127, 6138,6143, 6158,6158,
    6170,6175, 6265,6271, 6315,6319, 6390,6399, 6431,6431,
    6444,6447, 6460,6463, 6465,6467, 6510,6511, 6517,6527,
    6572,6575, 6602,6607, 6619,6621, 6684,6685, 6751,6751,
    6781,6782, 6794,6799, 6810,6815, 6830,6831, 6863,6911,
    6989,6991, 7039,7039, 7156,7163, 7224,7226, 7242,7244,
    7305,7311, 7355,7356, 7368,7375, 7419,7423, 7958,7959,
    7966,7967, 8006,8007, 8014,8015, 8024,8024, 8026,8026,
    8028,8028, 8030,8030, 8062,8063, 8117,8117, 8133,8133,
    8148,8149, 8156,8156, 8176,8177, 8181,8181, 8191,8207,
    8232,8239, 8287,8303, 8306,8307, 8335,8335, 8349,8351,
    8385,8399, 8433,8447, 8588,8591, 9255,9279, 9291,9311,
    11124,11125, 11158,11158, 11508,11512, 11558,11558,
    11560,11564, 11566,11567, 11624,11630, 11633,11646,
    11671,11679, 11687,11687, 11695,11695, 11703,11703,
    11711,11711, 11719,11719, 11727,11727, 11735,11735,
    11743,11743, 11870,11903, 11930,11930, 12020,12031,
    12246,12271, 12284,12288, 12352,12352, 12439,12440,
    12544,12548, 12592,12592, 12687,12687, 12772,12783,
    12831,12831, 42125,42127, 42183,42191, 42540,42559,
    42744,42751, 42955,42959, 42962,42962, 42964,42964,
    42970,42993, 43053,43055, 43066,43071, 43128,43135,
    43206,43213, 43226,43231, 43348,43358, 43389,43391,
    43470,43470, 43482,43485, 43519,43519, 43575,43583,
    43598,43599, 43610,43611, 43715,43738, 43767,43776,
    43783,43784, 43791,43792, 43799,43807, 43815,43815,
    43823,43823, 43884,43887, 44014,44015, 44026,44031,
    55204,55215, 55239,55242, 55292,63743, 64110,64111,
    64218,64255, 64263,64274, 64280,64284, 64311,64311,
    64317,64317, 64319,64319, 64322,64322, 64325,64325,
    64451,64466, 64912,64913, 64968,64974, 64976,65007,
    65050,65055, 65107,65107, 65127,65127, 65132,65135,
    65141,65141, 65277,65280, 65471,65473, 65480,65481,
    65488,65489, 65496,65497, 65501,65503, 65511,65511,
    65519,65531, 65534,65535, 65548,65548, 65575,65575,
    65595,65595, 65598,65598, 65614,65615, 65630,65663,
    65787,65791, 65795,65798, 65844,65846, 65935,65935,
    65949,65951, 65953,65999, 66046,66175, 66205,66207,
    66257,66271, 66300,66303, 66340,66348, 66379,66383,
    66427,66431, 66462,66462, 66500,66503, 66518,66559,
    66718,66719, 66730,66735, 66772,66775, 66812,66815,
    66856,66863, 66916,66926, 66939,66939, 66955,66955,
    66963,66963, 66966,66966, 66978,66978, 66994,66994,
    67002,67002, 67005,67071, 67383,67391, 67414,67423,
    67432,67455, 67462,67462, 67505,67505, 67515,67583,
    67590,67591, 67593,67593, 67638,67638, 67641,67643,
    67645,67646, 67670,67670, 67743,67750, 67760,67807,
    67827,67827, 67830,67834, 67868,67870, 67898,67902,
    67904,67967, 68024,68027, 68048,68049, 68100,68100,
    68103,68107, 68116,68116, 68120,68120, 68150,68151,
    68155,68158, 68169,68175, 68185,68191, 68256,68287,
    68327,68330, 68343,68351, 68406,68408, 68438,68439,
    68467,68471, 68498,68504, 68509,68520, 68528,68607,
    68681,68735, 68787,68799, 68851,68857, 68904,68911,
    68922,69215, 69247,69247, 69290,69290, 69294,69295,
    69298,69375, 69416,69423, 69466,69487, 69514,69551,
    69580,69599, 69623,69631, 69710,69713, 69750,69758,
    69821,69821, 69827,69839, 69865,69871, 69882,69887,
    69941,69941, 69960,69967, 70007,70015, 70112,70112,
    70133,70143, 70162,70162, 70207,70271, 70279,70279,
    70281,70281, 70286,70286, 70302,70302, 70314,70319,
    70379,70383, 70394,70399, 70404,70404, 70413,70414,
    70417,70418, 70441,70441, 70449,70449, 70452,70452,
    70458,70458, 70469,70470, 70473,70474, 70478,70479,
    70481,70486, 70488,70492, 70500,70501, 70509,70511,
    70517,70655, 70748,70748, 70754,70783, 70856,70863,
    70874,71039, 71094,71095, 71134,71167, 71237,71247,
    71258,71263, 71277,71295, 71354,71359, 71370,71423,
    71451,71452, 71468,71471, 71495,71679, 71740,71839,
    71923,71934, 71943,71944, 71946,71947, 71956,71956,
    71959,71959, 71990,71990, 71993,71994, 72007,72015,
    72026,72095, 72104,72105, 72152,72153, 72165,72191,
    72264,72271, 72355,72367, 72441,72703, 72713,72713,
    72759,72759, 72774,72783, 72813,72815, 72848,72849,
    72872,72872, 72887,72959, 72967,72967, 72970,72970,
    73015,73017, 73019,73019, 73022,73022, 73032,73039,
    73050,73055, 73062,73062, 73065,73065, 73103,73103,
    73106,73106, 73113,73119, 73130,73439, 73465,73647,
    73649,73663, 73714,73726, 74650,74751, 74863,74863,
    74869,74879, 75076,77711, 77811,77823, 78895,82943,
    83527,92159, 92729,92735, 92767,92767, 92778,92781,
    92863,92863, 92874,92879, 92910,92911, 92918,92927,
    92998,93007, 93018,93018, 93026,93026, 93048,93052,
    93072,93759, 93851,93951, 94027,94030, 94088,94094,
    94112,94175, 94181,94191, 94194,94207, 100344,100351,
    101590,101631, 101641,110575, 110580,110580,
    110588,110588, 110591,110591, 110883,110927,
    110931,110947, 110952,110959, 111356,113663,
    113771,113775, 113789,113791, 113801,113807,
    113818,113819, 113824,118527, 118574,118575,
    118599,118607, 118724,118783, 119030,119039,
    119079,119080, 119155,119162, 119275,119295,
    119366,119519, 119540,119551, 119639,119647,
    119673,119807, 119893,119893, 119965,119965,
    119968,119969, 119971,119972, 119975,119976,
    119981,119981, 119994,119994, 119996,119996,
    120004,120004, 120070,120070, 120075,120076,
    120085,120085, 120093,120093, 120122,120122,
    120127,120127, 120133,120133, 120135,120137,
    120145,120145, 120486,120487, 120780,120781,
    121484,121498, 121504,121504, 121520,122623,
    122655,122879, 122887,122887, 122905,122906,
    122914,122914, 122917,122917, 122923,123135,
    123181,123183, 123198,123199, 123210,123213,
    123216,123535, 123567,123583, 123642,123646,
    123648,124895, 124903,124903, 124908,124908,
    124911,124911, 124927,124927, 125125,125126,
    125143,125183, 125260,125263, 125274,125277,
    125280,126064, 126133,126208, 126270,126463,
    126468,126468, 126496,126496, 126499,126499,
    126501,126502, 126504,126504, 126515,126515,
    126520,126520, 126522,126522, 126524,126529,
    126531,126534, 126536,126536, 126538,126538,
    126540,126540, 126544,126544, 126547,126547,
    126549,126550, 126552,126552, 126554,126554,
    126556,126556, 126558,126558, 126560,126560,
    126563,126563, 126565,126566, 126571,126571,
    126579,126579, 126584,126584, 126589,126589,
    126591,126591, 126602,126602, 126620,126624,
    126628,126628, 126634,126634, 126652,126703,
    126706,126975, 127020,127023, 127124,127135,
    127151,127152, 127168,127168, 127184,127184,
    127222,127231, 127406,127461, 127491,127503,
    127548,127551, 127561,127567, 127570,127583,
    127590,127743, 128728,128732, 128749,128751,
    128765,128767, 128884,128895, 128985,128991,
    129004,129007, 129009,129023, 129036,129039,
    129096,129103, 129114,129119, 129160,129167,
    129198,129199, 129202,129279, 129620,129631,
    129646,129647, 129653,129655, 129661,129663,
    129671,129679, 129709,129711, 129723,129727,
    129734,129743, 129754,129759, 129768,129775,
    129783,129791, 129939,129939, 129995,130031,
    130042,131071, 173792,173823, 177977,177983,
    178206,178207, 183970,183983, 191457,194559,
    195102,196607, 201547,917759, 918000,1114111
  >>

\* a table lists the first and the last code point of each interval in turn
InRanges(c, ranges) ==
    \E i \in 1..(Len(ranges) \div 2) :
        ranges[2 * i - 1] <= c /\ c <= ranges[2 * i]

\* str.isalnum() of one character
IsAlnum(c) == IF c < 128 THEN c \in AsciiAlnum ELSE InRanges(c, AlnumRanges)

\* str.isprintable() of one character
IsPrintable(c) ==
    IF c < 128 THEN 32 <= c /\ c <= 126 ELSE ~InRanges(c, UnprintableRanges)

\* \w of a str pattern: the alphanumerics of Unicode and the underscore
WordChar(c) == IsAlnum(c) \/ c = Underscore

\* the class [\w_-] of the three regular expressions
NameChar(c) == WordChar(c) \/ c = Underscore \/ c = Hyphen

\* \s of a str pattern, and what str.strip(), str.split() and str.isspace()
\* treat as white space
Whitespace ==
    {9, 10, 11, 12, 13, 28, 29, 30, 31, 32, 133, 160, 5760,
     8192, 8193, 8194, 8195, 8196, 8197, 8198, 8199, 8200, 8201, 8202,
     8232, 8233, 8239, 8287, 12288}

(***************************************************************************)
(* str helpers                                                             *)
(***************************************************************************)
RECURSIVE LStrip(_, _)
LStrip(s, chars) ==
    IF s # <<>> /\ Head(s) \in chars THEN LStrip(Tail(s), chars) ELSE s

RECURSIVE RStrip(_, _)
RStrip(s, chars) ==
    IF s # <<>> /\ s[Len(s)] \in chars
    THEN RStrip(SubSeq(s, 1, Len(s) - 1), chars)
    ELSE s

\* s.strip(chars); s.strip() is Strip(s, Whitespace)
Strip(s, chars) == RStrip(LStrip(s, chars), chars)

\* number of leading characters of s that [\w_-] matches
RECURSIVE NameLen(_)
NameLen(s) ==
    IF s # <<>> /\ NameChar(Head(s)) THEN 1 + NameLen(Tail(s)) ELSE 0

\* s with its first k characters dropped
Drop(s, k) == SubSeq(s, k + 1, Len(s))

\* s.split(): the maximal runs of non-white-space characters, in order
RECURSIVE Split(_)
Split(s) ==
    LET t == LStrip(s, Whitespace)
        k == IF t = <<>> THEN 0
             ELSE CHOOSE j \in 1..Len(t) :
                    /\ \A i \in 1..j : t[i] \notin Whitespace
                    /\ (j = Len(t) \/ t[j + 1] \in Whitespace)
    IN  IF t = <<>> THEN <<>> ELSE <<SubSeq(t, 1, k)>> \o Split(Drop(t, k))

\* whether text s holds character c
Holds(s, c) == \E i \in 1..Len(s) : s[i] = c

(***************************************************************************)
(* parse_dep_line                                                          *)
(***************************************************************************)
NoMatch == <<<<-2>>>>

\* ^([\w_-]+)\s*  : the name and the text after the white space following it.
\* The classes [\w_-], \s and the separators are disjoint, so the greedy match
\* is the only one.
NameAndRest(s) ==
    LET n == NameLen(s)
        r == Drop(s, n)
    IN  IF n = 0 THEN NoMatch ELSE <<SubSeq(s, 1, n), LStrip(r, Whitespace)>>

\* a plausible slip: the pattern ^([\w_-]+)\s*=\s*(.*)$ keeps the quotes
MatchEqualsKeepsQuotes(s) ==
    LET nr == NameAndRest(s) IN
    IF nr = NoMatch \/ nr[2] = <<>> \/ Head(nr[2]) # EqualsSign THEN NoMatch
    ELSE LET q == LStrip(Tail(nr[2]), Whitespace) IN
         IF Len(q) >= 2 /\ q[1] = DoubleQuote /\ q[Len(q)] = DoubleQuote
            /\ ~Holds(SubSeq(q, 2, Len(q) - 1), LineFeed)
         THEN <<nr[1], q>>
         ELSE NoMatch

\* re.match(r'^([\w_-]+)\s*=\s*"(.*)"$', s) on a stripped line: `.` matches
\* every character but the line feed, and the line does not end in one
MatchEquals(s) ==
    LET nr == NameAndRest(s) IN
    IF nr = NoMatch \/ nr[2] = <<>> \/ Head(nr[2]) # EqualsSign THEN NoMatch
    ELSE LET q == LStrip(Tail(nr[2]), Whitespace) IN
         IF Len(q) >= 2 /\ q[1] = DoubleQuote /\ q[Len(q)] = DoubleQuote
            /\ ~Holds(SubSeq(q, 2, Len(q) - 1), LineFeed)
         THEN <<nr[1], SubSeq(q, 2, Len(q) - 1)>>
         ELSE NoMatch

\* re.match(r'^([\w_-]+)\s*:\s*(.*)$', s) on a stripped line: giving white
\* space back to (.*) cannot take it past a line feed, so the match is the
\* greedy one or none
MatchColon(s) ==
    LET nr == NameAndRest(s) IN
    IF nr = NoMatch \/ nr[2] = <<>> \/ Head(nr[2]) # Colon THEN NoMatch
    ELSE LET rest == LStrip(Tail(nr[2]), Whitespace) IN
         IF Holds(rest, LineFeed) THEN NoMatch ELSE <<nr[1], rest>>

\* re.match(r'^([\w_-]+)$', s) on a stripped line
MatchBare(s) ==
    IF s # <<>> /\ NameLen(s) = Len(s) THEN <<s>> ELSE NoMatch

parse_dep_line(raw) ==
    LET s == Strip(raw, Whitespace) IN
    IF s = <<>> \/ Head(s) = Hash THEN <<<<>>, None>>
    ELSE IF MatchEquals(s) # NoMatch
         THEN <<MatchEquals(s)[1], MatchEquals(s)[2]>>
    ELSE IF MatchColon(s) # NoMatch
         THEN <<MatchColon(s)[1], Strip(MatchColon(s)[2], Whitespace)>>
    ELSE IF MatchBare(s) # NoMatch
         THEN <<MatchBare(s)[1], None>>
    ELSE LET parts == Split(s) IN
         IF parts # <<>>
         THEN <<parts[1], IF Len(parts) > 1 THEN parts[2] ELSE None>>
         ELSE <<<<>>, None>>

(***************************************************************************)
(* read_dependencies_file                                                  *)
(***************************************************************************)
\* the path that does not exist; any other file is its sequence of lines,
\* each without its line terminator
NoFile == <<<<-3>>>>

\* `for raw in f`: each line is handed over with the line feed that ends it
RECURSIVE ReadLines(_)
ReadLines(lines) ==
    IF lines = <<>> THEN <<>>
    ELSE LET d == parse_dep_line(Append(Head(lines), LineFeed)) IN
         (IF d[1] # <<>> THEN <<d>> ELSE <<>>) \o ReadLines(Tail(lines))

read_dependencies_file(file) ==
    IF file = NoFile THEN <<>> ELSE ReadLines(file)

(***************************************************************************)
(* The toml library (0.10.2), as far as save_cargo_toml and                *)
(* load_cargo_toml use it: toml.dump writes a table of strings as lines    *)
(* `key = "value"`, toml.load reads the text back.  The two are not        *)
(* inverse to each other, so the file is modelled by what toml.load makes  *)
(* of the text toml.dump wrote.                                            *)
(*                                                                         *)
(* A table is a sequence of entries <<key, kind, value>> in insertion      *)
(* order, with kind "str" (value a text), "bool" (value the text true or   *)
(* false) or "table" (value a table).                                      *)
(***************************************************************************)
\* first index >= from at which sub occurs in s, 0 when there is none
RECURSIVE Find(_, _, _)
Find(s, sub, from) ==
    IF from + Len(sub) - 1 > Len(s) THEN 0
    ELSE IF SubSeq(s, from, from + Len(sub) - 1) = sub THEN from
    ELSE Find(s, sub, from + 1)

\* s.split(sep, maxsplit) for a non-empty sep; no limit when max is negative
RECURSIVE SplitOn(_, _, _)
SplitOn(s, sep, max) ==
    LET i == IF max = 0 THEN 0 ELSE Find(s, sep, 1) IN
    IF i = 0 THEN <<s>>
    ELSE <<SubSeq(s, 1, i - 1)>> \o SplitOn(Drop(s, i + Len(sep) - 1), sep, max - 1)

\* sep.join(parts)
RECURSIVE Join(_, _)
Join(parts, sep) ==
    IF parts = <<>> THEN <<>>
    ELSE IF Len(parts) = 1 THEN parts[1]
    ELSE parts[1] \o sep \o Join(Tail(parts), sep)

\* s.replace(old, new) for a non-empty old
Replace(s, old, new) == Join(SplitOn(s, old, -1), new)

\* s.count(c) for one character
Count(s, c) == Cardinality({i \in 1..Len(s) : s[i] = c})

\* the concatenation of a sequence of texts
Concat(parts) == Join(parts, <<>>)

HexDigit(d) == IF d < 10 THEN 48 + d ELSE 87 + d

\* n in lower-case hexadecimal, width digits
RECURSIVE HexText(_, _)
HexText(n, width) ==
    IF width = 0 THEN <<>>
    ELSE Append(HexText(n \div 16, width - 1), HexDigit(n % 16))

\* the quote repr() puts around a str
ReprQuote(v) ==
    IF Holds(v, SingleQuote) /\ ~Holds(v, DoubleQuote) THEN DoubleQuote ELSE SingleQuote

\* how repr() writes one character inside the quotes
ReprChar(c, quote) ==
    IF c = quote \/ c = Backslash THEN <<Backslash, c>>
    ELSE IF c = Tab THEN <<Backslash, Ord("t")>>
    ELSE IF c = LineFeed THEN <<Backslash, Ord("n")>>
    ELSE IF c = CarriageReturn THEN <<Backslash, Ord("r")>>
    ELSE IF c < 32 \/ c = 127 THEN <<Backslash, Ord("x")>> \o HexText(c, 2)
    ELSE IF c < 127 \/ IsPrintable(c) THEN <<c>>
    ELSE IF c <= 255 THEN <<Backslash, Ord("x")>> \o HexText(c, 2)
    ELSE IF c <= 65535 THEN <<Backslash, Ord("u")>> \o HexText(c, 4)
    ELSE <<Backslash, Ord("U")>> \o HexText(c, 8)

\* repr(v) without its quotes
ReprBody(v) == Concat([i \in 1..Len(v) |-> ReprChar(v[i], ReprQuote(v))])

\* an exception inside toml.dump (an IndexError of _dump_str)
DumpRaises == <<-4>>

\* the number of times the inner loop of _dump_str steps back over a
\* backslash: it looks at the characters of h from the last one on and never
\* at the first
RECURSIVE StepsBack(_, _)
StepsBack(h, j) ==
    IF j >= 2 /\ h[j] = Backslash THEN 1 + StepsBack(h, j - 1) ELSE 0

\* the while loop of _dump_str over the pieces that "\x" separated: each
\* round glues the first two pieces with "x" or "u00"
RECURSIVE JoinPieces(_)
JoinPieces(v) ==
    IF Len(v) <= 1 THEN v[1]
    ELSE LET w == IF v[1] = <<>> THEN Tail(v) ELSE v
             h == Replace(w[1], <<Backslash, Backslash>>, <<Backslash>>)
         IN  IF h = <<>> \/ Len(w) < 2 THEN DumpRaises
             ELSE LET joinx == (h[Len(h)] # Backslash) # (StepsBack(h, Len(h)) % 2 = 1)
                      joiner == IF joinx THEN <<Ord("x")>> ELSE T(<<"u", "0", "0">>)
                  IN  JoinPieces(<<h \o joiner \o w[2]>> \o SubSeq(w, 3, Len(w)))

\* the last line of _dump_str: the glued text between double quotes
WrapQuotes(glued) ==
    IF glued = DumpRaises THEN DumpRaises
    ELSE <<DoubleQuote>> \o glued \o <<DoubleQuote>>

\* _dump_str from the repr on: body is repr(v) without its quotes, quote the
\* quote character repr chose
DumpRepr(body, quote) ==
    WrapQuotes(JoinPieces(SplitOn(
        IF quote = SingleQuote
        THEN Replace(Replace(body, <<Backslash, SingleQuote>>, <<SingleQuote>>),
                     <<DoubleQuote>>, <<Backslash, DoubleQuote>>)
        ELSE body,
        <<Backslash, Ord("x")>>, -1)))

\* toml's _dump_str(v): the basic string written for v, or DumpRaises
DumpStr(v) == DumpRepr(ReprBody(v), ReprQuote(v))

AsciiNameChar == AsciiAlnum \cup {Underscore, Hyphen}

\* re.match(r'^[A-Za-z0-9_-]+$', key): `$` also matches before a final line feed
BareKey(key) ==
    LET k == IF key # <<>> /\ key[Len(key)] = LineFeed
             THEN SubSeq(key, 1, Len(key) - 1) ELSE key
    IN  k # <<>> /\ \A i \in 1..Len(k) : k[i] \in AsciiNameChar

\* qkey + " = " + value + "\n" of dump_sections
KeyValueLine(qkey, qval) ==
    IF qkey = DumpRaises \/ qval = DumpRaises THEN DumpRaises
    ELSE qkey \o T(<<" ", "=", " ">>) \o qval \o <<LineFeed>>

\* the line dump_sections writes for a string entry, with its line feed
DumpLine(key, value) ==
    KeyValueLine(IF BareKey(key) THEN key ELSE DumpStr(key), DumpStr(value))

\* a line followed by the lines after it
LinesJoined(l, rest) ==
    IF l = DumpRaises \/ rest = DumpRaises THEN DumpRaises ELSE l \o rest

\* the lines toml.dumps writes under the header of a table of strings
RECURSIVE DumpLines(_)
DumpLines(entries) ==
    IF entries = <<>> THEN <<>>
    ELSE LinesJoined(DumpLine(entries[1][1], entries[1][3]), DumpLines(Tail(entries)))

\* toml.load raises (a TomlDecodeError, or an exception the decoder lets out)
LoadRaises == <<<<-5>>>>

\* the text takes the decoder into a part of the library this model has no
\* account of: multi-line strings, arrays, inline tables, numbers, dates
LoadUnknown == <<<<-6>>>>

Last(seq) == seq[Len(seq)]

\* s[lo:-cut] of Python, for lo >= 0 and cut > 0
Slice(s, lo, cut) ==
    IF lo + 1 > Len(s) - cut THEN <<>> ELSE SubSeq(s, lo + 1, Len(s) - cut)

\* the number of backslashes that end at position j of s
RECURSIVE BackslashRun(_, _)
BackslashRun(s, j) ==
    IF j >= 1 /\ s[j] = Backslash THEN 1 + BackslashRun(s, j - 1) ELSE 0

\* the character at position j of the text under the table's header; the
\* header line ends in a line feed
At(sl, j) == IF j < 1 THEN LineFeed ELSE sl[j]

\* the state of the first loop of toml.loads when it reaches the first line
\* under the header
ScanStart(text) ==
    [sl |-> text, openarr |-> 0, openstring |-> FALSE, openstrchar |-> 0,
     beginline |-> TRUE, dottedkey |-> FALSE, keyname |-> 0, status |-> "ok"]

\* sl with the characters from i to the end of its line replaced by spaces
BlankComment(sl, i) ==
    [j \in 1..Len(sl) |->
        IF j >= i /\ \A k \in i..j : sl[k] # LineFeed THEN Space ELSE sl[j]]

\* the number of quote characters item that end at position i, up to three
QuoteRun(sl, i, item) ==
    IF At(sl, i - 1) # item THEN 1
    ELSE IF At(sl, i - 2) # item THEN 2 ELSE 3

\* a quote opens or closes a string, or is an escaped double quote
ScanQuote(st, i, item, quoteRun) ==
    IF item = SingleQuote /\ st.openstrchar # DoubleQuote
    THEN IF quoteRun = 3 THEN [st EXCEPT !.status = "unknown"]
         ELSE [st EXCEPT !.openstring = ~st.openstring,
                         !.openstrchar = IF ~st.openstring THEN SingleQuote ELSE 0]
    ELSE IF item = DoubleQuote /\ st.openstrchar # SingleQuote
    THEN IF quoteRun = 3 THEN [st EXCEPT !.status = "unknown"]
         ELSE IF quoteRun = 1 /\ BackslashRun(st.sl, i - 1) % 2 = 1
         THEN [st EXCEPT !.openstrchar = IF st.openstring THEN DoubleQuote ELSE 0]
         ELSE [st EXCEPT !.openstring = ~st.openstring,
                         !.openstrchar = IF ~st.openstring THEN DoubleQuote ELSE 0]
    ELSE st

\* a comment outside a string is blanked
ScanComment(st, i, item) ==
    IF item = Hash /\ ~st.openstring
    THEN [st EXCEPT !.sl = BlankComment(st.sl, i)]
    ELSE st

\* brackets outside a string: a table header, or an array that opens or
\* closes
ScanBracket(st, item) ==
    IF item = Ord("[") /\ ~st.openstring
    THEN IF st.beginline THEN [st EXCEPT !.status = "unknown"]
         ELSE [st EXCEPT !.openarr = st.openarr + 1]
    ELSE IF item = Ord("]") /\ ~st.openstring
    THEN [st EXCEPT !.openarr = st.openarr - 1]
    ELSE st

\* the end of a line, or the first character of a key
ScanLineEnd(st, i, item) ==
    IF item = LineFeed
    THEN IF st.openstring THEN [st EXCEPT !.status = "raises"]
         ELSE IF st.openarr # 0 THEN [st EXCEPT !.sl[i] = Space]
         ELSE [st EXCEPT !.beginline = TRUE]
    ELSE IF st.beginline /\ st.sl[i] # Space /\ st.sl[i] # Tab
    THEN IF st.sl[i] = EqualsSign THEN [st EXCEPT !.status = "raises"]
         ELSE [st EXCEPT !.beginline = FALSE, !.keyname = 1]
    ELSE st

\* the part of one round of the first loop of toml.loads that follows the
\* key name: quotes, comments, brackets, line ends
ScanRest(st, i, item) ==
    ScanLineEnd(
        ScanBracket(
            ScanComment(ScanQuote(st, i, item, QuoteRun(st.sl, i, item)), i, item),
            item),
        i, item)

\* a character that cannot go on a key ends it: the equals sign, or an error
LeaveKey(st, i, item) ==
    IF item = EqualsSign
    THEN ScanRest([st EXCEPT !.keyname = 0, !.dottedkey = FALSE], i, item)
    ELSE [st EXCEPT !.status = "raises"]

\* whether the key goes on after the character next
Resumes(next) == next \notin Whitespace /\ next # Dot

\* one round of the first loop of toml.loads, on the character item at i,
\* followed by the character next.  The test for "\r\n" reads sl[i + 1], an
\* IndexError when the text ends in a carriage return; the other reads of
\* sl[i + 1] are inside a key, which raises at the end of the text anyway.
ScanItem(st, i, item, next) ==
    IF item = CarriageReturn /\ i = Len(st.sl) THEN [st EXCEPT !.status = "raises"]
    ELSE IF item = CarriageReturn /\ next = LineFeed THEN [st EXCEPT !.sl[i] = Space]
    ELSE IF st.keyname = 0 THEN ScanRest(st, i, item)
    ELSE IF item = LineFeed THEN [st EXCEPT !.status = "raises"]
    ELSE IF st.openstring
    THEN IF item = st.openstrchar /\ BackslashRun(st.sl, i - 1) % 2 = 0
         THEN [st EXCEPT !.keyname = 2, !.openstring = FALSE, !.openstrchar = 0]
         ELSE st
    ELSE IF st.keyname = 1
    THEN IF item \in Whitespace THEN [st EXCEPT !.keyname = 2]
         ELSE IF item = Dot THEN [st EXCEPT !.dottedkey = TRUE]
         ELSE IF IsAlnum(item) \/ item = Underscore \/ item = Hyphen THEN st
         ELSE IF st.dottedkey /\ At(st.sl, i - 1) = Dot
                 /\ item \in {DoubleQuote, SingleQuote}
         THEN [st EXCEPT !.openstring = TRUE, !.openstrchar = item]
         ELSE LeaveKey(st, i, item)
    ELSE IF item \in Whitespace
    THEN IF st.dottedkey /\ Resumes(next) THEN [st EXCEPT !.keyname = 1] ELSE st
    ELSE IF item = Dot
    THEN IF Resumes(next) THEN [st EXCEPT !.dottedkey = TRUE, !.keyname = 1]
         ELSE [st EXCEPT !.dottedkey = TRUE]
    ELSE LeaveKey(st, i, item)

\* one round of the first loop of toml.loads, on the character at i
ScanStep(st, i) ==
    ScanItem(st, i, st.sl[i], IF i < Len(st.sl) THEN st.sl[i + 1] ELSE LineFeed)

\* the first loop of toml.loads from position i on, and the two tests after it
RECURSIVE Scan(_, _)
Scan(st, i) ==
    IF st.status # "ok" THEN st
    ELSE IF i > Len(st.sl)
    THEN IF st.keyname # 0 \/ st.openstring THEN [st EXCEPT !.status = "raises"] ELSE st
    ELSE Scan(ScanStep(st, i), i + 1)

\* the loop of _get_split_on_quotes over the pieces before the first double
\* quote: <<single-quote pieces, remaining double-quote pieces>>
RECURSIVE SingleQuoteLoop(_, _)
SingleQuoteLoop(sq, dq) ==
    IF Len(sq) % 2 = 0 /\ dq # <<>>
    THEN LET glued == Last(sq) \o <<DoubleQuote>> \o dq[1]
             front == SubSeq(sq, 1, Len(sq) - 1)
         IN  SingleQuoteLoop(
                 IF Holds(glued, SingleQuote)
                 THEN front \o SplitOn(glued, <<SingleQuote>>, -1)
                 ELSE Append(front, glued),
                 Tail(dq))
    ELSE <<sq, dq>>

\* the end of _get_split_on_quotes: pre is <<single-quote pieces, remaining
\* double-quote pieces>>
SplitRemaining(pre) ==
    pre[1] \o (IF pre[2] = <<>> THEN <<>>
               ELSE SplitOn(pre[2][1], <<SingleQuote>>, -1) \o Tail(pre[2]))

\* _get_split_on_quotes on the pieces the double quotes separate
SplitPieces(dq0) ==
    SplitRemaining(
        IF Len(dq0) > 1 /\ Holds(dq0[1], SingleQuote)
        THEN SingleQuoteLoop(SplitOn(dq0[1], <<SingleQuote>>, -1), Tail(dq0))
        ELSE <<<<>>, dq0>>)

\* the decoder's _get_split_on_quotes(text)
GetSplitOnQuotes(text) == SplitPieces(SplitOn(text, <<DoubleQuote>>, -1))

\* the count load_line starts its split from: one more than the equals signs
\* in the pieces before the first unquoted piece that holds one
RECURSIVE EqualsBefore(_, _, _)
EqualsBefore(qs, quoted, i) ==
    IF qs = <<>> THEN i
    ELSE IF ~quoted /\ Holds(qs[1], EqualsSign) THEN i
    ELSE EqualsBefore(Tail(qs), ~quoted, i + Count(qs[1], EqualsSign))

\* a text float() may accept: nothing but alphanumerics, white space, signs,
\* dots and underscores
MaybeFloat(t) ==
    \A j \in 1..Len(t) :
        \/ IsAlnum(t[j]) \/ t[j] \in Whitespace
        \/ t[j] \in {Ord("+"), Hyphen, Dot, Underscore}

\* a text int() may accept
MaybeInt(t) ==
    /\ t # <<>>
    /\ \A j \in 1..Len(t) :
           \/ IsAlnum(t[j]) \/ t[j] \in Whitespace
           \/ t[j] \in {Ord("+"), Hyphen, Underscore}

\* a text _load_date may accept: it reads the digits at fixed places and
\* does not look at what separates them.  A text of ten characters is a date;
\* any other is a date and a time, whose seconds val[17:19] are one digit
\* when the text has eighteen characters.
MaybeDate(t) ==
    /\ Len(t) = 10 \/ Len(t) >= 18
    /\ Holds(Tail(t), Hyphen)
    /\ MaybeInt(SubSeq(t, 1, 4)) /\ MaybeInt(SubSeq(t, 6, 7)) /\ MaybeInt(SubSeq(t, 9, 10))
    /\ Len(t) = 10
       \/ /\ MaybeInt(SubSeq(t, 12, 13)) /\ MaybeInt(SubSeq(t, 15, 16))
          /\ MaybeInt(SubSeq(t, 18, IF Len(t) = 18 THEN 18 ELSE 19))

\* TIME_RE.match(t): two digits, a colon, two digits, a colon, two digits
TimeLike(t) ==
    /\ Len(t) >= 8
    /\ \A j \in {1, 2, 4, 5, 7, 8} : t[j] \in 48..57
    /\ t[3] = Colon /\ t[6] = Colon

StartsValue(c) ==
    c \in {Space, Tab, SingleQuote, DoubleQuote, Ord("["), Ord("{")}

TrueText == T(<<"t", "r", "u", "e">>)

FalseText == T(<<"f", "a", "l", "s", "e">>)

\* the text after the split as the loop tests it
TestedText(raw, first) ==
    IF first /\ raw # <<>> /\ raw[1] \in 48..57
    THEN Replace(raw, <<Underscore>>, <<>>)
    ELSE raw

RECURSIVE SplitIndex(_, _, _)
\* one round of the loop, on the text last after the i-th equals sign
SplitRound(ln, i, last) ==
    IF last = <<>> \/ StartsValue(last[1])
       \/ Strip(last, Whitespace) \in {TrueText, FalseText}
    THEN i
    ELSE IF MaybeFloat(last) \/ MaybeDate(last) \/ TimeLike(last) THEN -1
    ELSE IF Last(SplitOn(ln, <<EqualsSign>>, i + 1)) = last THEN 0
    ELSE SplitIndex(ln, i + 1, FALSE)

\* the while loop of load_line: the number of equals signs the line is split
\* at, 0 when the loop raises, -1 when the text after the split may be a
\* number, a date or a time.  In the first round the text has lost its
\* underscores when it starts with a digit.
SplitIndex(ln, i, first) ==
    SplitRound(ln, i, TestedText(Last(SplitOn(ln, <<EqualsSign>>, i)), first))

\* the levels load_line takes from a key that holds a dot and a quote
RECURSIVE QuotedLevels(_, _)
QuotedLevels(qs, quoted) ==
    IF qs = <<>> THEN <<>>
    ELSE (IF quoted THEN <<qs[1]>>
          ELSE LET parts == SplitOn(qs[1], <<Dot>>, -1) IN
               [j \in 1..Len(parts) |-> Strip(parts[j], Whitespace)])
         \o QuotedLevels(Tail(qs), ~quoted)

\* seq without the empty texts at its end
RECURSIVE DropEmptyTail(_)
DropEmptyTail(seq) ==
    IF seq # <<>> /\ Last(seq) = <<>>
    THEN DropEmptyTail(SubSeq(seq, 1, Len(seq) - 1))
    ELSE seq

\* a ValueError, or an IndexError, inside the decoder
Invalid == <<-5>>

\* a value of a kind this model has no account of
UnknownValue == <<-6>>

\* the characters after a backslash that _unescape replaces, and by what
Escapes ==
    (Ord("0") :> 0) @@ (Ord("b") :> 8) @@ (Ord("f") :> 12) @@ (Ord("n") :> 10)
    @@ (Ord("r") :> 13) @@ (Ord("t") :> 9) @@ (DoubleQuote :> DoubleQuote)

\* the decoder's _unescape(v), from position i on
RECURSIVE Unescape(_, _, _)
Unescape(v, i, backslash) ==
    IF i > Len(v) THEN v
    ELSE IF backslash
    THEN IF v[i] \in DOMAIN Escapes
         THEN Unescape(SubSeq(v, 1, i - 2) \o <<Escapes[v[i]]>> \o Drop(v, i), i, FALSE)
         ELSE IF v[i] = Backslash
         THEN Unescape(SubSeq(v, 1, i - 2) \o Drop(v, i - 1), i, FALSE)
         ELSE IF v[i] \in {Ord("u"), Ord("U")}
         THEN Unescape(v, i + 1, FALSE)
         ELSE Invalid
    ELSE Unescape(v, i + 1, v[i] = Backslash)

\* value of a text of hexadecimal digits
RECURSIVE HexValue(_)
HexValue(h) ==
    IF h = <<>> THEN 0
    ELSE 16 * HexValue(SubSeq(h, 1, Len(h) - 1))
         + (LET c == Last(h) IN
            IF c \in 48..57 THEN c - 48 ELSE IF c \in 97..102 THEN c - 87 ELSE c - 55)

IsHexDigit(c) == c \in (48..57) \cup (97..102) \cup (65..70)

\* the loop of _load_unicode_escapes over the pieces that followed the
\* prefix ("\u" with four digits, "\U" with eight)
RECURSIVE UnicodeLoop(_, _, _, _, _)
UnicodeLoop(v, pieces, prefix, digits, skip) ==
    IF v = Invalid \/ pieces = <<>> THEN v
    ELSE LET hx == pieces[1]
             hxb == SubSeq(hx, 1, IF Len(hx) < digits THEN Len(hx) ELSE digits)
         IN  IF skip
             THEN UnicodeLoop(v \o prefix \o hx, Tail(pieces), prefix, digits,
                              BackslashRun(hx, Len(hx)) % 2 = 1)
             ELSE IF hxb = <<>> \/ \E j \in 1..Len(hxb) : ~IsHexDigit(hxb[j]) THEN Invalid
             ELSE IF hxb[1] \in {Ord("d"), Ord("D")}
                     /\ (Len(hxb) < 2 \/ hxb[2] \notin 48..55)
             THEN Invalid
             ELSE IF HexValue(hxb) > 1114111 THEN Invalid
             ELSE UnicodeLoop(v \o <<HexValue(hxb)>> \o Drop(hx, Len(hxb)),
                              Tail(pieces), prefix, digits, FALSE)

\* what load_value does for one prefix when the text holds it
LoadUnicodeEscapes(v, prefix, digits) ==
    IF v = Invalid \/ Find(v, prefix, 1) = 0 THEN v
    ELSE LET pieces == SplitOn(v, prefix, -1) IN
         UnicodeLoop(pieces[1], Tail(pieces), prefix, digits,
                     BackslashRun(pieces[1], Len(pieces[1])) % 2 = 1)

\* the test of load_value on the pieces between the quotes of a string:
\* TRUE when it raises "Found tokens after a closed string"
RECURSIVE TokensAfterClose(_, _, _, _)
TokensAfterClose(testv, triple, count, closed) ==
    IF testv = <<>> THEN FALSE
    ELSE LET tv == testv[1] IN
         IF tv = <<>>
         THEN IF triple THEN TokensAfterClose(Tail(testv), triple, count + 1, closed)
              ELSE TokensAfterClose(Tail(testv), triple, count, TRUE)
         ELSE IF BackslashRun(tv, Len(tv)) % 2 = 1
         THEN TokensAfterClose(Tail(testv), triple, count, closed)
         ELSE IF closed THEN TRUE
         ELSE IF ~triple \/ count > 1
         THEN TokensAfterClose(Tail(testv), triple, count, TRUE)
         ELSE TokensAfterClose(Tail(testv), triple, 0, closed)

\* the test of load_value on the pieces a backslash starts: TRUE when it
\* raises "Reserved escape sequence used"
RECURSIVE ReservedEscape(_, _)
ReservedEscape(seqs, backslash) ==
    IF seqs = <<>> THEN FALSE
    ELSE IF seqs[1] = <<>> THEN ReservedEscape(Tail(seqs), ~backslash)
    ELSE IF seqs[1][1] \notin DOMAIN Escapes
            /\ seqs[1][1] \notin {Ord("u"), Ord("U")} /\ ~backslash
    THEN TRUE
    ELSE ReservedEscape(Tail(seqs), FALSE)

\* _unescape of a text whose unicode escapes were replaced
UnescapeChecked(u) == IF u = Invalid THEN Invalid ELSE Unescape(u, 1, FALSE)

\* the escapes of a text in double quotes replaced, or Invalid
BasicString(v) ==
    IF ReservedEscape(Tail(SplitOn(v, <<Backslash>>, -1)), FALSE) THEN Invalid
    ELSE UnescapeChecked(
             LoadUnicodeEscapes(LoadUnicodeEscapes(v, <<Backslash, Ord("u")>>, 4),
                                <<Backslash, Ord("U")>>, 8))

\* whether the pieces between the quotes start a triple-quoted string
Triple(testv0) == Len(testv0) > 1 /\ testv0[1] = <<>> /\ testv0[2] = <<>>

\* the text between the quotes: v[2:-2] when the second character is the
\* quote again, then v[1:-1]
Unquoted(v1, quotechar) ==
    Slice(IF Len(v1) > 1 /\ v1[2] = quotechar /\ (Len(v1) < 3 \/ v1[2] = v1[3])
          THEN Slice(v1, 2, 2)
          ELSE v1,
          1, 1)

\* load_value on a text in quotes, given the pieces testv0 between its
\* quotes and the text v1 with its escapes replaced
ClosedString(testv0, v1, quotechar) ==
    IF TokensAfterClose(IF Triple(testv0) THEN SubSeq(testv0, 3, Len(testv0)) ELSE testv0,
                        Triple(testv0), 0, FALSE)
       \/ v1 = Invalid
    THEN Invalid
    ELSE Unquoted(v1, quotechar)

\* load_value on a text that starts with a quote: the string, or Invalid
LoadString(v) ==
    ClosedString(SplitOn(Tail(v), <<v[1]>>, -1),
                 IF v[1] # DoubleQuote THEN v ELSE BasicString(v),
                 v[1])

\* lower() of a text of ASCII letters
Lowered(t) == [j \in 1..Len(t) |-> IF t[j] \in 65..90 THEN t[j] + 32 ELSE t[j]]

\* the value load_value returns for a string
StringValue(s) == IF s = Invalid THEN Invalid ELSE <<"str", s>>

\* load_value(v): <<kind, value>>, Invalid, or UnknownValue
LoadValue(v) ==
    IF v = <<>> THEN Invalid
    ELSE IF v \in {TrueText, FalseText} THEN <<"bool", v>>
    ELSE IF Lowered(v) \in {TrueText, FalseText} THEN Invalid
    ELSE IF v[1] \in {DoubleQuote, SingleQuote} THEN StringValue(LoadString(v))
    ELSE UnknownValue

\* whether _load_line_multiline_str takes the value for the start of a
\* multi-line string
MultiLineStart(p) ==
    /\ Len(p) >= 3
    /\ p[1] \in {DoubleQuote, SingleQuote} /\ p[2] = p[1] /\ p[3] = p[1]
    /\ ~(Len(p) > 5 /\ p[Len(p)] = p[1] /\ p[Len(p) - 1] = p[1] /\ p[Len(p) - 2] = p[1])

TableHas(tbl, key) == \E j \in 1..Len(tbl) : tbl[j][1] = key

TableIndex(tbl, key) == CHOOSE j \in 1..Len(tbl) : tbl[j][1] = key

\* the table with entry set at key under the tables the levels name, made
\* where they are missing; LoadRaises when a level is no table or the key is
\* taken ("Duplicate keys!")
RECURSIVE PutAt(_, _, _, _)
PutAt(tbl, levels, key, kv) ==
    IF levels = <<>>
    THEN IF TableHas(tbl, key) THEN LoadRaises ELSE Append(tbl, <<key, kv[1], kv[2]>>)
    ELSE IF levels[1] = <<>> THEN PutAt(tbl, Tail(levels), key, kv)
    ELSE IF ~TableHas(tbl, levels[1])
    THEN LET sub == PutAt(<<>>, Tail(levels), key, kv) IN
         IF sub = LoadRaises THEN LoadRaises
         ELSE Append(tbl, <<levels[1], "table", sub>>)
    ELSE LET j == TableIndex(tbl, levels[1]) IN
         IF tbl[j][2] # "table" THEN LoadRaises
         ELSE LET sub == PutAt(tbl[j][3], Tail(levels), key, kv) IN
              IF sub = LoadRaises THEN LoadRaises
              ELSE [tbl EXCEPT ![j] = <<levels[1], "table", sub>>]

\* the tables a dotted key names and the key under them
DottedKey(levels) ==
    IF levels = <<>> THEN Invalid
    ELSE <<SubSeq(levels, 1, Len(levels) - 1), Strip(Last(levels), Whitespace)>>

\* a key without levels
PlainKey(u) == IF u = Invalid THEN Invalid ELSE <<<<>>, u>>

\* the key load_line reads from the text before the equals sign:
\* <<levels, key>>, or Invalid
LoadKey(k) ==
    IF k = <<>> THEN Invalid
    ELSE IF Holds(k, Dot)
    THEN DottedKey(DropEmptyTail(
             IF Holds(k, DoubleQuote) \/ Holds(k, SingleQuote)
             THEN QuotedLevels(GetSplitOnQuotes(k), FALSE)
             ELSE SplitOn(k, <<Dot>>, -1)))
    ELSE IF k[1] \in {DoubleQuote, SingleQuote} /\ Last(k) = k[1]
    THEN PlainKey(Unescape(Slice(k, 1, 1), 1, FALSE))
    ELSE PlainKey(k)

\* the value load_line reads from the text p after the equals sign
ValueOf(p) == IF MultiLineStart(p) THEN UnknownValue ELSE LoadValue(p)

\* the end of load_line: the value val is set at the key, which must be new
\* before the value is looked at
SetValue(tbl, key, val) ==
    IF key = Invalid THEN LoadRaises
    ELSE IF PutAt(tbl, key[1], key[2], <<"str", <<>>>>) = LoadRaises THEN LoadRaises
    ELSE IF val = UnknownValue THEN LoadUnknown
    ELSE IF val = Invalid THEN LoadRaises
    ELSE PutAt(tbl, key[1], key[2], val)

\* load_line on the texts pair that the split gave
LoadPair(tbl, pair) ==
    SetValue(tbl,
             LoadKey(Strip(Join(SubSeq(pair, 1, Len(pair) - 1), <<EqualsSign>>),
                           Whitespace)),
             ValueOf(Strip(Last(pair), Whitespace)))

\* load_line once the while loop has found where to split
LoadSplit(ln, tbl, i) ==
    IF i = 0 THEN LoadRaises
    ELSE IF i = -1 THEN LoadUnknown
    ELSE LoadPair(tbl, SplitOn(ln, <<EqualsSign>>, i))

\* load_line(ln, currentlevel): the table with the line's entry, LoadRaises
\* or LoadUnknown
LoadLine(ln, tbl) ==
    LoadSplit(ln, tbl, SplitIndex(ln, EqualsBefore(GetSplitOnQuotes(ln), FALSE, 1), TRUE))

\* the second loop of toml.loads over the lines under the header
RECURSIVE LoadLines(_, _)
LoadLines(lines, tbl) ==
    IF lines = <<>> \/ tbl \in {LoadRaises, LoadUnknown} THEN tbl
    ELSE LET ln == Strip(lines[1], Whitespace) IN
         IF ln = <<>> THEN LoadLines(Tail(lines), tbl)
         ELSE IF ln[1] \in {Ord("["), Ord("{")} THEN LoadUnknown
         ELSE IF Holds(ln, EqualsSign) THEN LoadLines(Tail(lines), LoadLine(ln, tbl))
         ELSE LoadLines(Tail(lines), tbl)

\* the second loop of toml.loads on what the first loop left
LoadScanned(st) ==
    IF st.status = "raises" THEN LoadRaises
    ELSE IF st.status = "unknown" THEN LoadUnknown
    ELSE LoadLines(SplitOn(st.sl, <<LineFeed>>, -1), <<>>)

\* toml.loads of the lines under the header of a table: the table,
\* LoadRaises or LoadUnknown
LoadTable(text) == LoadScanned(Scan(ScanStart(text), 1))

(***************************************************************************)
(* Cargo.toml and add_dependencies_to_cargo_toml                           *)
(*                                                                         *)
(* The file on disk is absent, or holds text toml.load rejects before it   *)
(* reaches the dependencies table, or holds a package table and, when it   *)
(* has a [dependencies] header, the lines under it.  What the file means   *)
(* is what toml.load makes of those lines.                                 *)
(***************************************************************************)
NoPackage == [name |-> "", version |-> ""]

NoDependencies == <<>>

AbsentManifest ==
    [exists |-> FALSE, wellFormed |-> FALSE, package |-> NoPackage,
     hasDeps |-> FALSE, lines |-> <<>>]

MalformedManifest ==
    [exists |-> TRUE, wellFormed |-> FALSE, package |-> NoPackage,
     hasDeps |-> FALSE, lines |-> <<>>]

\* the file open("w") leaves when nothing is written to it
EmptyManifest ==
    [exists |-> TRUE, wellFormed |-> TRUE, package |-> NoPackage,
     hasDeps |-> FALSE, lines |-> <<>>]

\* a file toml.dump wrote from a document with nested tables, whose text
\* this model has no account of
UndescribedManifest ==
    [exists |-> TRUE, wellFormed |-> TRUE, package |-> NoPackage,
     hasDeps |-> TRUE, lines |-> <<-6>>]

\* no document: toml.load did not return
NoData ==
    [package |-> NoPackage, hasDeps |-> FALSE, dependencies |-> NoDependencies]

\* what toml.load gives for the file m whose dependencies table reads as tbl
Loaded(m, tbl) ==
    IF ~m.wellFormed \/ tbl = LoadRaises THEN [status |-> "raises", data |-> NoData]
    ELSE IF m = UndescribedManifest \/ tbl = LoadUnknown
    THEN [status |-> "outside", data |-> NoData]
    ELSE [status |-> "ok",
          data |-> [package |-> m.package, hasDeps |-> m.hasDeps,
                    dependencies |-> tbl]]

\* what read() gives on a file opened in text mode: "\r\n" and a lone "\r"
\* are read as "\n"
UniversalNewlines(text) ==
    Replace(Replace(text, <<CarriageReturn, LineFeed>>, <<LineFeed>>),
            <<CarriageReturn>>, <<LineFeed>>)

\* toml.load(path), which opens the file in text mode and hands what it
\* reads to toml.loads: [status, data], status "ok", "raises" or "outside"
load_cargo_toml(m) ==
    Loaded(m, IF m.hasDeps /\ m # UndescribedManifest
              THEN LoadTable(UniversalNewlines(m.lines)) ELSE NoDependencies)

\* the file after the write, text being what toml.dumps makes of the
\* dependencies table
Written(data, text) ==
    IF \E j \in 1..Len(data.dependencies) : data.dependencies[j][2] # "str"
    THEN [status |-> "outside", manifest |-> UndescribedManifest]
    ELSE IF text = DumpRaises
    THEN [status |-> "raises", manifest |-> EmptyManifest]
    ELSE [status |-> "written",
          manifest |-> [exists |-> TRUE, wellFormed |-> TRUE,
                        package |-> data.package, hasDeps |-> TRUE,
                        lines |-> text]]

\* toml.dump(data, f) on the file opened with "w": [status, manifest].  The
\* file is emptied when it is opened, so it stays empty when toml.dump raises
\* before it writes.
save_cargo_toml(data) == Written(data, DumpLines(data.dependencies))

\* the document synthesized when Cargo.toml does not exist
DefaultDocument(dirName) ==
    [package |-> [name |-> dirName, version |-> "0.1.0"],
     hasDeps |-> FALSE, dependencies |-> NoDependencies]

\* a plausible slip: one pair of surrounding quotes is removed, no more
StripVersionOneLayer(ver) ==
    LET t == Strip(ver, Whitespace) IN
    IF Len(t) >= 2 /\ t[1] = t[Len(t)] /\ t[1] \in {DoubleQuote, SingleQuote}
    THEN SubSeq(t, 2, Len(t) - 1)
    ELSE t

\* vs = ver.strip().strip('"').strip("'")
StripVersion(ver) ==
    Strip(Strip(Strip(ver, Whitespace), {DoubleQuote}), {SingleQuote})

\* what the loop stores for a name that is not yet a key: `if ver:` is false
\* for None and for the empty string
StoredVersion(ver) ==
    IF ver # None /\ ver # <<>> THEN StripVersion(ver) ELSE <<Star>>

\* a plausible slip: the membership test is lost
AlreadyPresentNever(name, dependencies) == FALSE

\* `name in data["dependencies"]`: whether the loop leaves the name alone
AlreadyPresent(name, dependencies) == TableHas(dependencies, name)

\* the for loop: st is [dependencies, added]
RECURSIVE MergeLoop(_, _)
MergeLoop(st, ds) ==
    IF ds = <<>> THEN st
    ELSE LET name == Head(ds)[1]
             ver  == Head(ds)[2]
         IN  IF AlreadyPresent(name, st.dependencies)
             THEN MergeLoop(st, Tail(ds))
             ELSE MergeLoop(
                    [dependencies |->
                         Append(st.dependencies, <<name, "str", StoredVersion(ver)>>),
                     added |-> Append(st.added, name)],
                    Tail(ds))

\* a plausible slip: the document is written back whatever was added
ShouldSaveAlways(addedNames) == TRUE

\* whether the merge writes the document back
ShouldSave(addedNames) == addedNames # <<>>

\* the default document in place of one that toml.load raised on
Repaired(rd, dirName) ==
    IF rd.status = "raises"
    THEN [status |-> "ok", data |-> DefaultDocument(dirName)]
    ELSE rd

\* a plausible slip: an unreadable Cargo.toml is replaced by the default
\* document instead of raising
ReadManifestRepairing(m, dirName) ==
    IF ~m.exists
    THEN [status |-> "ok", data |-> DefaultDocument(dirName)]
    ELSE Repaired(load_cargo_toml(m), dirName)

\* the document the merge starts from: the loaded file, or the default one
\* when there is no file
ReadManifest(m, dirName) ==
    IF ~m.exists
    THEN [status |-> "ok", data |-> DefaultDocument(dirName)]
    ELSE load_cargo_toml(m)

\* the loop of the last merge did not run
NoDocument == <<<<-7>>>>

\* lines 140-145: st is what the loop left, wr what save_cargo_toml does
\* with the document
SaveIfAdded(m, dirThere, st, wr) ==
    IF ~ShouldSave(st.added)
    THEN [outcome |-> "returned", manifest |-> m, added |-> <<>>,
          document |-> st.dependencies]
    ELSE IF ~dirThere
    THEN [outcome |-> "raised", manifest |-> m, added |-> <<>>,
          document |-> st.dependencies]
    ELSE IF wr.status = "written"
    THEN [outcome |-> "returned", manifest |-> wr.manifest,
          added |-> st.added, document |-> st.dependencies]
    ELSE [outcome |-> IF wr.status = "raises" THEN "raised" ELSE "outside",
          manifest |-> wr.manifest, added |-> <<>>,
          document |-> st.dependencies]

\* lines 140-145 on the state st the loop left
AfterLoop(m, dirThere, package, st) ==
    SaveIfAdded(m, dirThere, st,
                save_cargo_toml([package |-> package, hasDeps |-> TRUE,
                                 dependencies |-> st.dependencies]))

\* lines 124-145 on what reading the manifest gave
MergeInto(m, dirThere, rd, ds) ==
    IF rd.status # "ok"
    THEN [outcome |-> IF rd.status = "raises" THEN "raised" ELSE "outside",
          manifest |-> m, added |-> <<>>, document |-> NoDocument]
    ELSE AfterLoop(m, dirThere, rd.data.package,
                   MergeLoop([dependencies |-> rd.data.dependencies, added |-> <<>>], ds))

\* add_dependencies_to_cargo_toml(cargo_toml_path, deps) on the file m in a
\* directory that exists or not: [outcome, manifest, added, document], with
\* document the table data["dependencies"] after the loop.  Opening the file
\* for writing raises when its directory does not exist.
add_dependencies_to_cargo_toml(m, dirThere, dirName, ds) ==
    MergeInto(m, dirThere, ReadManifest(m, dirName), ds)

(***************************************************************************)
(* Bounds of the model                                                     *)
(***************************************************************************)
MaxNameLen == 2

MaxVerLen == 2

MaxLineLen == 3

MaxLines == 2

\* how many dependency files are read and merged one after another
MaxRounds == 2

\* every text of at most k characters drawn from alphabet A
TextsUpTo(A, k) == UNION {[1..m -> A] : m \in 0..k}

\* a letter outside ASCII that \w matches
SmallNTilde == 241

\* a letter of another script that \w matches
CjkLetter == 20013

\* the escape character, which repr() writes as \x1b
Escape == 27

\* the characters name tokens, version strings and raw lines are drawn from
NameAlphabet == {Ord("a"), Ord("9"), Underscore, Hyphen}

VerAlphabet == {Ord("1"), Dot, Space, Colon, EqualsSign, FormFeed, LineFeed}

RawAlphabet ==
    {Ord("a"), Hyphen, Space, EqualsSign, Colon, DoubleQuote, SingleQuote, Hash,
     Dot, SmallNTilde, CjkLetter, FormFeed}

NameTokens == TextsUpTo(NameAlphabet, MaxNameLen) \ {<<>>}

VersionStrings == TextsUpTo(VerAlphabet, MaxVerLen)

RawLines == TextsUpTo(RawAlphabet, MaxLineLen)

Forms == {"equals", "colon", "bare", "blank", "comment", "raw"}

\* the surface forms of the docstring of parse_dep_line, built from (n, v)
BuildLine(f, n, v) ==
    CASE f = "equals"  -> n \o <<Space, EqualsSign, Space, DoubleQuote>> \o v \o <<DoubleQuote>>
      [] f = "colon"   -> n \o <<Colon, Space>> \o v
      [] f = "bare"    -> n
      [] f = "blank"   -> [i \in 1..Len(v) |-> Space]
      [] f = "comment" -> <<Space, Hash>> \o v
      [] OTHER         -> v

\* the (n, v) a form is built from: a form that has no name or no version
\* is built from the empty one
FormInputs(f) ==
    CASE f \in {"equals", "colon"} -> NameTokens \X VersionStrings
      [] f = "bare"                -> NameTokens \X {<<>>}
      [] f \in {"blank", "comment"} -> {<<>>} \X VersionStrings
      [] OTHER                     -> {<<>>} \X RawLines

(***************************************************************************)
(* Values the variables of the other processes rest at                     *)
(***************************************************************************)
NoExit == <<>>

ParseRest ==
    /\ form = "raw" /\ tokN = <<>> /\ tokV = <<>> /\ line = <<>>
    /\ decl = <<<<>>, None>>

MergeRest ==
    /\ manifest = AbsentManifest /\ before = AbsentManifest
    /\ depsFile = NoFile /\ deps = <<>> /\ added = <<>> /\ document = NoDocument
    /\ outcome = "none" /\ prevAdded = <<>> /\ round = 0

MainRest ==
    /\ cargo = FALSE /\ rustc = FALSE /\ dirExists = FALSE /\ warned = FALSE
    /\ buildInvoked = FALSE /\ buildOk = FALSE /\ reminded = FALSE
    /\ exitCode = NoExit /\ ending = ""

(***************************************************************************)
(* The parser on its own: a line is drawn, parse_dep_line is applied       *)
(***************************************************************************)
InitParse ==
    /\ pc = "line"
    /\ form \in Forms
    /\ \E nv \in FormInputs(form) : tokN = nv[1] /\ tokV = nv[2]
    /\ line = BuildLine(form, tokN, tokV)
    /\ decl = <<<<>>, None>>
    /\ MergeRest /\ MainRest

Parse ==
    /\ pc = "line"
    /\ decl' = parse_dep_line(line)
    /\ pc' = "parsed"
    /\ UNCHANGED <<form, tokN, tokV, line, mergeVars, mainVars>>

NextParse == Parse

SpecParse == InitParse /\ [][NextParse]_vars
(***************************************************************************)
(* Dependency files and manifests the runs start from.  A dependency file  *)
(* is the sequence of its lines, each without the line feed that ends it;  *)
(* the file is opened with universal newlines, so no line holds a carriage *)
(* return or a line feed.                                                  *)
(***************************************************************************)
Serde == T(<<"s", "e", "r", "d", "e">>)

Tokio == T(<<"t", "o", "k", "i", "o">>)

SerdeEquals == Serde \o T(<<" ", "=", " ", "\"", "1", ".", "0", "\"">>)

TokioBare == Tokio

NetLibComment == T(<<"#", " ", "n", "e", "t", " ", "l", "i", "b">>)

TokioColon == Tokio \o T(<<":", "1", ".", "2", "8">>)

SerdeColon == Serde \o T(<<":", "2">>)

NestedQuotes == T(<<"a", " ", "\"", "'", "1", "'", "\"">>)

EmptyVersion == T(<<"a", ":">>)

\* a line the patterns do not match: its first token holds a quote and a dot
QuoteDot == T(<<"\"", ".">>)

\* the same with a letter after the dot: toml.load reads the line written
\* for it as a table inside the dependencies table
QuoteDotName == T(<<"\"", ".", "a">>)

\* the same with an equals sign
QuoteEquals == T(<<"\"", "=">>)

\* a version that holds a backslash followed by x
BackslashVersion == <<Ord("b"), Colon, Backslash, Ord("x")>>

\* a version that begins with a control character
ControlVersion == <<Ord("c"), Colon, Escape, Ord("1")>>

\* the file of the end-to-end scenario
ScenarioFile == <<SerdeEquals, TokioBare, NetLibComment, TokioColon>>

\* a version with white space inside its quotes
PaddedVersion == T(<<"l", "o", "g", " ", "=", " ", "\"", " ", "0", ".", "4", " ", "\"">>)

LinePool ==
    {SerdeEquals, TokioBare, NetLibComment, TokioColon, SerdeColon,
     NestedQuotes, EmptyVersion, PaddedVersion}

\* lines whose declaration toml.dump and toml.load do not carry through
RiskyLines ==
    {QuoteDot, QuoteDotName, QuoteEquals, BackslashVersion, ControlVersion}

Files ==
    TextsUpTo(LinePool, MaxLines) \cup {<<l>> : l \in RiskyLines} \cup {ScenarioFile}

ProjectName == "demo"

\* what `cargo new` writes: a package table and an empty dependencies table
CargoNewManifest ==
    [exists |-> TRUE, wellFormed |-> TRUE,
     package |-> [name |-> ProjectName, version |-> "0.1.0"],
     hasDeps |-> TRUE, lines |-> <<>>]

NoSectionManifest ==
    [exists |-> TRUE, wellFormed |-> TRUE,
     package |-> [name |-> ProjectName, version |-> "0.1.0"],
     hasDeps |-> FALSE, lines |-> <<>>]

\* a manifest with the line `serde = "0.9"` under [dependencies]
SerdeManifest ==
    [exists |-> TRUE, wellFormed |-> TRUE,
     package |-> [name |-> "app", version |-> "0.2.0"],
     hasDeps |-> TRUE,
     lines |-> Serde \o T(<<" ", "=", " ", "\"", "0", ".", "9", "\"">>) \o <<LineFeed>>]

\* a manifest with the line `"\"." = "1"`, valid TOML for the key `".`
QuotedKeyManifest ==
    [exists |-> TRUE, wellFormed |-> TRUE,
     package |-> [name |-> "app", version |-> "0.2.0"],
     hasDeps |-> TRUE,
     lines |-> <<DoubleQuote, Backslash, DoubleQuote, Dot, DoubleQuote>>
               \o T(<<" ", "=", " ", "\"", "1", "\"">>) \o <<LineFeed>>]

\* a manifest whose comment ends in a lone carriage return, followed by
\* the line `serde = "0.9"`
CarriageReturnManifest ==
    [exists |-> TRUE, wellFormed |-> TRUE,
     package |-> [name |-> "app", version |-> "0.2.0"],
     hasDeps |-> TRUE,
     lines |-> T(<<"#", " ", "c">>) \o <<CarriageReturn>> \o Serde
               \o T(<<" ", "=", " ", "\"", "0", ".", "9", "\"">>) \o <<LineFeed>>]

\* a manifest with the line `a=2020-01-01T10:10:1`, a date and a time of
\* eighteen characters
DateTimeManifest ==
    [exists |-> TRUE, wellFormed |-> TRUE,
     package |-> [name |-> "app", version |-> "0.2.0"],
     hasDeps |-> TRUE,
     lines |-> T(<<"a", "=", "2", "0", "2", "0", "-", "0", "1", "-", "0", "1",
                   "T", "1", "0", ":", "1", "0", ":", "1">>) \o <<LineFeed>>]

\* a manifest with a lone carriage return inside a string: `a = "x\ry"`
OpenStringManifest ==
    [exists |-> TRUE, wellFormed |-> TRUE,
     package |-> [name |-> "app", version |-> "0.2.0"],
     hasDeps |-> TRUE,
     lines |-> T(<<"a", " ", "=", " ", "\"", "x">>) \o <<CarriageReturn>>
               \o T(<<"y", "\"">>) \o <<LineFeed>>]

InitialManifests ==
    {AbsentManifest, MalformedManifest, CargoNewManifest, NoSectionManifest,
     SerdeManifest, QuotedKeyManifest, CarriageReturnManifest,
     DateTimeManifest, OpenStringManifest}

(***************************************************************************)
(* The reader and the merger on their own: a file is read, the result is   *)
(* merged, and the same list may be merged once more                       *)
(***************************************************************************)
InitMerge ==
    /\ pc = "read"
    /\ manifest \in InitialManifests
    /\ dirExists \in {d \in BOOLEAN : manifest.exists => d}
    /\ before = manifest
    /\ depsFile = NoFile /\ deps = <<>> /\ added = <<>> /\ document = NoDocument
    /\ outcome = "none" /\ prevAdded = <<>> /\ round = 0
    /\ cargo = FALSE /\ rustc = FALSE /\ warned = FALSE
    /\ buildInvoked = FALSE /\ buildOk = FALSE /\ reminded = FALSE
    /\ exitCode = NoExit /\ ending = ""
    /\ ParseRest

ReadFile ==
    /\ pc = "read" /\ round < MaxRounds
    /\ round' = round + 1
    /\ \E file \in Files \cup {NoFile} :
         /\ depsFile' = file
         /\ deps' = read_dependencies_file(file)
    /\ pc' = "merge"
    /\ UNCHANGED <<manifest, before, added, document, outcome, prevAdded,
                   parseVars, mainVars>>

MergeCall ==
    /\ pc \in {"merge", "merged"}
    /\ \E r \in {add_dependencies_to_cargo_toml(manifest, dirExists, ProjectName, deps)} :
         /\ before' = manifest
         /\ manifest' = r.manifest
         /\ added' = r.added
         /\ document' = r.document
         /\ outcome' = r.outcome
         /\ pc' = IF r.outcome = "outside" THEN "outside"
                  ELSE IF pc = "merge" THEN "merged" ELSE "remerged"
    /\ prevAdded' = IF pc = "merged" THEN added ELSE <<>>
    /\ UNCHANGED <<depsFile, deps, round, parseVars, mainVars>>

\* the caller is done with what the calls returned; the file system stays
Return ==
    /\ pc \in {"merged", "remerged"}
    /\ pc' = "read"
    /\ before' = manifest
    /\ depsFile' = NoFile /\ deps' = <<>> /\ added' = <<>> /\ document' = NoDocument
    /\ outcome' = "none" /\ prevAdded' = <<>>
    /\ UNCHANGED <<manifest, round, parseVars, mainVars>>

NextMerge == ReadFile \/ MergeCall \/ Return

SpecMerge == InitMerge /\ [][NextMerge]_vars
(***************************************************************************)
(* main(): one run after another on the same file system                   *)
(***************************************************************************)
\* the dependency files a run of main() may find
MainFiles ==
    {<<>>, <<SerdeColon>>, <<NestedQuotes, EmptyVersion>>, ScenarioFile,
     <<QuoteEquals>>, <<ControlVersion>>}

\* step 4 of main(): the project directory's file first, then the current
\* directory's
DiscoverDepsFile(projFile, cwdFile) ==
    IF projFile # NoFile THEN projFile ELSE cwdFile

\* the process ends with this status; its locals are gone
Exit(code, how) ==
    /\ pc' = "exited"
    /\ exitCode' = <<code>>
    /\ ending' = how

Init ==
    /\ pc = "start"
    /\ manifest \in InitialManifests
    /\ dirExists \in {d \in BOOLEAN : manifest.exists => d}
    /\ before = manifest
    /\ depsFile = NoFile /\ deps = <<>> /\ added = <<>> /\ document = NoDocument
    /\ outcome = "none" /\ prevAdded = <<>> /\ round = 0
    /\ cargo = FALSE /\ rustc = FALSE /\ warned = FALSE
    /\ buildInvoked = FALSE /\ buildOk = FALSE /\ reminded = FALSE
    /\ exitCode = NoExit /\ ending = ""
    /\ ParseRest

\* step 1: a new process starts; the toolchain is looked up and the warning
\* printed when cargo or rustc is missing
Start ==
    /\ pc \in {"start", "exited"}
    /\ \E c \in BOOLEAN, r \in BOOLEAN :
         /\ cargo' = c
         /\ rustc' = r
         /\ warned' = (~c \/ ~r)
    /\ pc' = "name"
    /\ before' = manifest
    /\ depsFile' = NoFile /\ deps' = <<>> /\ added' = <<>> /\ document' = NoDocument
    /\ outcome' = "none" /\ prevAdded' = <<>>
    /\ buildInvoked' = FALSE /\ buildOk' = FALSE /\ reminded' = FALSE
    /\ exitCode' = NoExit /\ ending' = ""
    /\ UNCHANGED <<manifest, dirExists, round, parseVars>>

\* step 2: the project name from argv or from the prompt
GetProjectName ==
    /\ pc = "name"
    /\ \E given \in BOOLEAN :
         IF given
         THEN pc' = "ensure" /\ UNCHANGED <<exitCode, ending>>
         ELSE Exit(1, "no project name")
    /\ UNCHANGED <<parseVars, mergeVars, cargo, rustc, dirExists, warned,
                   buildInvoked, buildOk, reminded>>

\* step 3: ensure_project.  run_cmd is subprocess.run, which raises
\* FileNotFoundError when the executable is not on the path; `cargo new`
\* refuses a destination that exists, and may fail otherwise.
EnsureProject ==
    /\ pc = "ensure"
    /\ IF dirExists /\ manifest.exists
       THEN pc' = "read" /\ UNCHANGED <<manifest, dirExists, exitCode, ending>>
       ELSE IF ~cargo
       THEN Exit(1, "cargo not found") /\ UNCHANGED <<manifest, dirExists>>
       ELSE \E returncode \in (IF dirExists THEN {101} ELSE {0, 101}) :
              IF returncode # 0
              THEN Exit(1, "cargo new failed") /\ UNCHANGED <<manifest, dirExists>>
              ELSE /\ dirExists' = TRUE
                   /\ manifest' = CargoNewManifest
                   /\ pc' = "read"
                   /\ UNCHANGED <<exitCode, ending>>
    /\ UNCHANGED <<parseVars, before, depsFile, deps, added, document, outcome,
                   prevAdded, round, cargo, rustc, warned, buildInvoked, buildOk, reminded>>

\* step 4: the dependency file is found and read
ReadDependencies ==
    /\ pc = "read"
    /\ \E projFile \in MainFiles \cup {NoFile}, cwdFile \in MainFiles \cup {NoFile} :
         \E file \in {DiscoverDepsFile(projFile, cwdFile)} :
            /\ depsFile' = file
            /\ deps' = read_dependencies_file(file)
    /\ pc' = "merge"
    /\ UNCHANGED <<parseVars, manifest, before, added, document, outcome, prevAdded,
                   round, mainVars>>

\* step 5: the merge; an exception it raises is caught nowhere
MergeStep ==
    /\ pc = "merge"
    /\ \E r \in {add_dependencies_to_cargo_toml(manifest, dirExists, ProjectName, deps)} :
         /\ before' = manifest
         /\ manifest' = r.manifest
         /\ added' = r.added
         /\ document' = r.document
         /\ outcome' = r.outcome
         /\ IF r.outcome = "raised"
            THEN Exit(1, IF r.document = NoDocument THEN "manifest unreadable"
                         ELSE "write failed")
            ELSE /\ pc' = IF r.outcome = "outside" THEN "outside" ELSE "build"
                 /\ UNCHANGED <<exitCode, ending>>
    /\ UNCHANGED <<parseVars, depsFile, deps, prevAdded, round, cargo, rustc, dirExists,
                   warned, buildInvoked, buildOk, reminded>>

\* a plausible slip: a failed build ends the run with status 1
BuildStepFatal ==
    /\ pc = "build"
    /\ \E ok \in BOOLEAN :
         /\ buildInvoked' = cargo
         /\ buildOk' = (cargo /\ ok)
         /\ IF cargo /\ ~ok
            THEN Exit(1, "build failed")
            ELSE pc' = "reminder" /\ UNCHANGED <<exitCode, ending>>
    /\ UNCHANGED <<parseVars, mergeVars, cargo, rustc, dirExists, warned, reminded>>

\* step 6: cargo_build when cargo is there; its failure is only reported
BuildStep ==
    /\ pc = "build"
    /\ IF cargo
       THEN /\ buildInvoked' = TRUE
            /\ \E ok \in BOOLEAN : buildOk' = ok
       ELSE UNCHANGED <<buildInvoked, buildOk>>
    /\ pc' = "reminder"
    /\ UNCHANGED <<parseVars, mergeVars, cargo, rustc, dirExists, warned, reminded,
                   exitCode, ending>>

\* the last line of main(), and the return
Reminder ==
    /\ pc = "reminder"
    /\ reminded' = TRUE
    /\ Exit(0, "done")
    /\ UNCHANGED <<parseVars, mergeVars, cargo, rustc, dirExists, warned,
                   buildInvoked, buildOk>>

Next ==
    \/ Start
    \/ GetProjectName
    \/ EnsureProject
    \/ ReadDependencies
    \/ MergeStep
    \/ BuildStep
    \/ Reminder

Spec == Init /\ [][Next]_vars

\* a process that has reached the build step or the last line takes it
FairSpec == Spec /\ WF_vars(BuildStep) /\ WF_vars(Reminder)
(***************************************************************************)
(* Properties                                                              *)
(***************************************************************************)
\* the dependencies table toml.load reads from a file: the empty one when
\* there is no file, no table, or nothing toml.load accepts
TableOf(m) ==
    IF m.exists /\ load_cargo_toml(m).status = "ok"
    THEN load_cargo_toml(m).data.dependencies
    ELSE NoDependencies

\* the keys of a table
KeysOf(tbl) == {tbl[j][1] : j \in 1..Len(tbl)}

\* the keys of the dependencies table of a file
Keys(m) == KeysOf(TableOf(m))

\* the entry a table holds under a key
EntryOf(tbl, key) == tbl[TableIndex(tbl, key)]

\* toml.load raises on the file
Unreadable(m) == m.exists /\ load_cargo_toml(m).status = "raises"

\* the keys the loop of the last merge inserted
Inserted ==
    IF document = NoDocument THEN {} ELSE KeysOf(document) \ Keys(before)

\* the first declaration of a list that carries the name
FirstDecl(name, ds) ==
    ds[CHOOSE i \in 1..Len(ds) :
         /\ ds[i][1] = name
         /\ \A j \in 1..(i - 1) : ds[j][1] # name]

\* a list without the declarations whose name an earlier one carries
RECURSIVE FirstOccurrences(_)
FirstOccurrences(ds) ==
    IF ds = <<>> THEN <<>>
    ELSE LET init == SubSeq(ds, 1, Len(ds) - 1)
             last == ds[Len(ds)]
         IN  IF \E j \in 1..Len(init) : init[j][1] = last[1]
             THEN FirstOccurrences(init)
             ELSE Append(FirstOccurrences(init), last)

\* s between its first and its last character outside chars
Trimmed(s, chars) ==
    LET keep == {i \in 1..Len(s) : s[i] \notin chars} IN
    IF keep = {} THEN <<>>
    ELSE SubSeq(s, CHOOSE i \in keep : \A j \in keep : i <= j,
                   CHOOSE i \in keep : \A j \in keep : i >= j)

\* s without one pair of surrounding quotes, when it has one
OneLayerOff(s) ==
    IF Len(s) >= 2 /\ s[1] = s[Len(s)] /\ s[1] \in {DoubleQuote, SingleQuote}
    THEN SubSeq(s, 2, Len(s) - 1)
    ELSE s

\* C1 as stated: a merge never changes or removes a dependency that was in
\* Cargo.toml when it began: every entry toml.load read from the file before
\* is an entry it reads from the file afterwards, with the same value.
C1_NonDestruction ==
    outcome # "outside" =>
        \A k \in Keys(before) :
            /\ k \in Keys(manifest)
            /\ EntryOf(TableOf(manifest), k) = EntryOf(TableOf(before), k)

\* C2 as stated: merging the same list a second time leaves Cargo.toml as the
\* first merge left it and returns no added name; it returns normally when
\* the first merge did.
C2_Idempotence ==
    pc = "remerged" =>
        /\ manifest = before
        /\ added = <<>>
        /\ (prevAdded # <<>> => outcome = "returned")

\* C3: of several declarations with one name only the first counts: the
\* merge gives what the merge of the list without its later duplicates
\* gives, no name is reported twice, every inserted key holds what its first
\* declaration makes it hold, and the scenario file merged into a manifest
\* without dependencies gives serde "1.0" and tokio "*", in the document and
\* in the file.
C3_FirstOccurrenceWins ==
    document # NoDocument =>
        /\ LET r == add_dependencies_to_cargo_toml(before, dirExists, ProjectName,
                                                   FirstOccurrences(deps))
           IN  manifest = r.manifest /\ added = r.added /\ document = r.document
        /\ \A i \in 1..Len(added) : \A j \in 1..Len(added) :
               added[i] = added[j] => i = j
        /\ \A n \in Inserted :
               EntryOf(document, n) = <<n, "str", StoredVersion(FirstDecl(n, deps)[2])>>
        /\ (depsFile = ScenarioFile /\ Keys(before) = {} /\ dirExists) =>
               /\ document = << <<Serde, "str", T(<<"1", ".", "0">>)>>,
                                <<Tokio, "str", <<Star>>>> >>
               /\ TableOf(manifest) = document
               /\ added = <<Serde, Tokio>>

\* the scenario file merged into the manifest `cargo new` writes
C3_Witness ==
    /\ outcome = "returned" /\ depsFile = ScenarioFile
    /\ before = CargoNewManifest
    /\ Len(deps) = 3 /\ deps[2][1] = deps[3][1]
    /\ Keys(manifest) = {Serde, Tokio}

\* C4: a merge that inserts nothing (no declaration, or every declared name
\* already a key) writes nothing: the file is as it was, an absent file stays
\* absent, and no name is returned.
C4_NoInsertNoWrite ==
    (outcome # "none" /\ \A i \in 1..Len(deps) : deps[i][1] \in Keys(before)) =>
        manifest = before /\ added = <<>>

\* a merge of declarations whose names were all keys already
C4_Witness ==
    /\ outcome = "returned"
    /\ deps # <<>>
    /\ \A i \in 1..Len(deps) : deps[i][1] \in Keys(before)
    /\ manifest = before

\* C5 as stated: the equals form and the colon form built from (n, v) parse
\* to (n, v), the bare name to (n, None), a blank or comment line to the
\* skip marker.
C5_RoundTripAsStated ==
    pc = "parsed" =>
        /\ form \in {"equals", "colon"} => decl = <<tokN, tokV>>
        /\ form = "bare" => decl = <<tokN, None>>
        /\ form \in {"blank", "comment"} => decl = <<<<>>, None>>

\* C5 amended: for a version that holds no line feed, the equals form gives
\* (n, v) and the colon form gives the version without its leading and
\* trailing white space; the rest as stated.
C5_RoundTrip ==
    pc = "parsed" =>
        /\ (form = "equals" /\ ~Holds(tokV, LineFeed)) => decl = <<tokN, tokV>>
        /\ (form = "colon" /\ ~Holds(tokV, LineFeed)) =>
               decl = <<tokN, Trimmed(tokV, Whitespace)>>
        /\ form = "bare" => decl = <<tokN, None>>
        /\ form \in {"blank", "comment"} => decl = <<<<>>, None>>

\* a colon form whose version begins with a space
C5_Witness ==
    /\ pc = "parsed" /\ form = "colon"
    /\ tokV = <<Space, Ord("1")>>
    /\ decl = <<tokN, <<Ord("1")>>>>

\* C6 as stated: every name parse_dep_line returns is made of characters of
\* [A-Za-z0-9_-].
C6_NamesAreAscii ==
    pc = "parsed" => \A i \in 1..Len(decl[1]) : decl[1][i] \in AsciiNameChar

\* C7 as stated: an inserted key holds the first declared version with one
\* layer of surrounding quotes removed, and "*" exactly when no version was
\* declared.  White space around the version is not held against the
\* statement, and an empty version counts as none.
C7_OneLayerAsStated ==
    \A n \in Inserted :
        LET ver == FirstDecl(n, deps)[2] IN
        EntryOf(document, n)[3] =
            IF ver # None /\ ver # <<>>
            THEN OneLayerOff(Trimmed(ver, Whitespace))
            ELSE <<Star>>

\* C7 amended: the loop stores under an inserted key the first declared
\* version without its leading and trailing white space, then without every
\* leading and trailing ", then without every leading and trailing '; it
\* stores "*" exactly when the version is absent or empty.
C7_StoredVersion ==
    \A n \in Inserted :
        LET ver == FirstDecl(n, deps)[2] IN
        EntryOf(document, n) =
            <<n, "str",
              IF ver # None /\ ver # <<>>
              THEN Trimmed(Trimmed(Trimmed(ver, Whitespace), {DoubleQuote}), {SingleQuote})
              ELSE <<Star>>>>

\* a version in two layers of quotes was stored bare, and one with white
\* space around it was stored without
C7_Witness ==
    /\ outcome = "returned"
    /\ \E n \in Inserted :
         /\ FirstDecl(n, deps)[2] = T(<<"\"", "'", "1", "'", "\"">>)
         /\ EntryOf(document, n)[3] = <<Ord("1")>>
         /\ EntryOf(TableOf(manifest), n)[3] = <<Ord("1")>>
    /\ \E n \in Inserted :
         /\ FirstDecl(n, deps)[2] = T(<<" ", "0", ".", "4", " ">>)
         /\ EntryOf(document, n)[3] = T(<<"0", ".", "4">>)
         /\ EntryOf(TableOf(manifest), n)[3] = T(<<"0", ".", "4">>)

\* C8: a run that reaches the build step goes on to the final reminder and
\* ends with status 0, whether the build succeeded or failed, and the build
\* command runs only after the merge returned.
C8_BuildNotFatal ==
    /\ [](pc = "build" => <>(pc = "exited" /\ reminded /\ exitCode = <<0>>))
    /\ [](buildInvoked => outcome = "returned")

\* a run whose build failed ended at the reminder with status 0
C8_Witness ==
    /\ pc = "exited" /\ buildInvoked /\ ~buildOk
    /\ reminded /\ exitCode = <<0>>

\* C9 as stated: a run that printed the toolchain warning goes on to the
\* end of the run; it ends early only for a reason the specification calls
\* fatal (no project name, `cargo new` exiting non-zero, an unreadable
\* manifest).
C9_WarningThenContinues ==
    (warned /\ pc = "exited") =>
        \/ reminded /\ exitCode = <<0>>
        \/ ending \in {"no project name", "cargo new failed", "manifest unreadable"}

\* C10: when toml.load cannot parse Cargo.toml the merge raises: the file is
\* as it was, nothing is added, and the run ends with a non-zero status
\* without the build command and without the reminder.
C10_UnreadableManifestIsFatal ==
    (outcome # "none" /\ Unreadable(before)) =>
        /\ outcome = "raised"
        /\ manifest = before
        /\ added = <<>> /\ document = NoDocument
        /\ pc = "exited" /\ exitCode = <<1>>
        /\ ~buildInvoked /\ ~reminded

\* a run with cargo present and declarations to add ended at the unreadable
\* manifest
C10_Witness ==
    /\ outcome = "raised" /\ before = MalformedManifest
    /\ deps # <<>> /\ cargo /\ rustc
    /\ pc = "exited"

====
